---- MODULE Spec2Model ----
(***************************************************************************)
(* State-machine model of the OBS WebSocket client engine                  *)
(* (src/src/obs_handler.c): the daemon thread's connection state machine,  *)
(* the four-level command queue, and the public facade called from caller  *)
(* threads.                                                                *)
(*                                                                         *)
(* Threads: one daemon thread (obs_daemon_thread) and the caller threads   *)
(* of Callers.  A critical section that performs no blocking call is one   *)
(* atomic step, enabled only while the mutex it takes is free.  The daemon *)
(* reads obs->state and obs->should_exit without a lock, so its dispatch   *)
(* is a step of its own and every later step of an iteration acts on the   *)
(* value read at dispatch.                                                 *)
(*                                                                         *)
(* Memory allocation (calloc, cJSON_CreateObject, cJSON_Print) is taken to *)
(* succeed.                                                                *)
(***************************************************************************)
EXTENDS Integers, Sequences, FiniteSets, TLC

(* ---------------------------------------------------------------------- *)
(* Bounds of the model                                                     *)
(* ---------------------------------------------------------------------- *)
\* switch_scene calls that get past the scene-cache check, over a behaviour
\* of SpecQueue and over a behaviour of Spec
MaxCmds == 3
MaxCmdsConn == 1
\* the same over a behaviour of SpecShutdown
MaxCmdsShutdown == 3
\* Error-state iterations are followed until the retry counter reaches
\* max_retries + RetrySlack
RetrySlack == 1
\* pthread_create calls that are followed
MaxThreads == 2
\* seconds the clock may advance past its initial value
MaxTicks == 6

Callers == {"c1", "c2"}
Scenes == {"A", "B"}

(* ---------------------------------------------------------------------- *)
(* Program constants                                                       *)
(* ---------------------------------------------------------------------- *)
\* the error pthread_create returns when it cannot start a thread
EAGAIN == 11
OBS_PRIORITY_LOW == 0
OBS_PRIORITY_NORMAL == 1
OBS_PRIORITY_HIGH == 2
OBS_PRIORITY_CRITICAL == 3
Priorities == OBS_PRIORITY_LOW .. OBS_PRIORITY_CRITICAL

ConnStates ==
    {"Uninitialized", "Disconnected", "Connecting", "Authenticating",
     "Connected", "Error", "Reconnecting", "ShuttingDown"}

ErrorFlags3 == {"NETWORK_ERROR", "AUTH_ERROR", "PROTOCOL_ERROR"}

NoCmd == [id |-> 0, scene_name |-> "", priority |-> 0]
\* outside a Connected iteration nothing has been read or popped
NoIter == [frames |-> 0, cmds |-> 0]

VARIABLES
    \* struct obs_websocket
    state,                \* obs->state
    socket_open,          \* obs->socket_fd >= 0
    should_exit,          \* obs->should_exit
    config,               \* obs->config
    command_queue_head,   \* obs->command_queue_head[4], each list head first
    command_queue_count,  \* obs->command_queue_count
    status_flags,         \* obs->status_flags, as the set of the bits set
    current_scene,        \* obs->current_scene
    stats,                \* obs->stats (messages_sent, scene_switches)
    retry_count,          \* obs->retry_count
    auth_required,        \* obs->auth_required
    last_pong_received,   \* obs->last_pong_received
    last_ping_sent,       \* obs->last_ping_sent
    state_mutex,          \* owner of obs->state_mutex, or "free"
    nthreads,             \* daemon threads pthread_create has started
    \* the daemon thread
    dpc,                  \* position of obs_daemon_thread
    dcmd,                 \* the command obs_process_command_queue has popped
    last_keepalive,       \* obs_daemon_thread's local last_keepalive
    dflags,               \* status_flags as loaded by an unlocked |= in progress
    \* caller threads
    cpc,                  \* position of each caller
    clocal,               \* each caller's arguments and locals
    cret,                 \* the value each caller's last facade call returned
    \* environment
    now,                  \* time(NULL), in seconds
    mock_frames,          \* the poll outcomes the server and network produce
    cmd_budget,           \* the switch_scene calls the callers make
    \* history
    nalloc,               \* commands allocated by switch_scene so far
    accepted,             \* commands accepted by switch_scene so far
    wire,                 \* ids of the commands whose frame was transmitted
    discarded,            \* ids of the commands freed by cleanup
    everHelloAuth,        \* a Hello demanding authentication was processed
    identified,           \* Identified was processed on the current connection
    nfree,                \* how many times each command id has been freed
    cb_on,                \* the threads a registered callback was invoked on
    entered,              \* the state line 213 chose on the current connection
    frame_leaked,         \* a payload obs_read_frame allocated was never freed
    iter,                 \* frames read and commands popped in this iteration
    command_mutex,        \* owner of obs->command_mutex, or "free"
    challenge_fresh,      \* obs->challenge came with this connection's Hello
    \* the frame codec and the authenticator taken alone
    frame_in,             \* obs_send_frame's arguments and the mask key drawn
    frame_wire,           \* the bytes obs_send_frame wrote to the socket
    frame_out,            \* what obs_read_frame returned for those bytes
    auth_in,              \* config.password, obs->salt, obs->challenge
    auth_out,             \* the Identify message obs_authenticate sent
    \* the byte stream of one connection taken alone
    net,                  \* the segments the server sent, not yet received
    rpc,                  \* position of the receiving daemon thread
    dispatched,           \* the frames obs_read_frame returned, in order
    event                 \* "enqueued", "fast_path": what the latest step did

engineVars ==
    <<state, socket_open, should_exit, config, command_queue_head,
      command_queue_count, status_flags, current_scene, stats, retry_count,
      auth_required, last_pong_received, last_ping_sent, state_mutex>>
daemonVars == <<dpc, dcmd, last_keepalive>>
callerVars == <<cpc, clocal, cret>>
histVars ==
    <<nalloc, accepted, wire, discarded, everHelloAuth, identified>>
envVars == <<now, mock_frames, cmd_budget>>
codecVars == <<frame_in, frame_wire, frame_out, auth_in, auth_out>>
streamVars == <<net, rpc, dispatched>>
threadVars ==
    <<engineVars, daemonVars, callerVars, envVars, histVars, event, nthreads,
      dflags, nfree, cb_on, entered, frame_leaked, iter, command_mutex,
      challenge_fresh>>
vars ==
    <<engineVars, daemonVars, callerVars, envVars, histVars, event, nthreads,
      dflags, nfree, cb_on, entered, frame_leaked, iter, command_mutex,
      challenge_fresh, codecVars, streamVars>>

(* ---------------------------------------------------------------------- *)
(* Construction                                                            *)
(* ---------------------------------------------------------------------- *)
\* time(NULL) when the engine is constructed: any value far above the
\* configured intervals, the zero-initialised time stamps being 1970
Epoch0 == 100

\* obs_websocket_default_config, with the queue capacity and retry limit
\* scaled down and the two feature toggles left to the caller
DefaultConfig(cache, keepalive) ==
    [host |-> "localhost",
     port |-> 4455,
     max_retries |-> 2,
     ping_interval_ms |-> 10000,
     ping_timeout_ms |-> 5000,
     command_queue_size |-> 2,
     enable_scene_cache |-> cache,
     enable_keepalive |-> keepalive]

\* configurations of the specification Spec: keepalive off, so that no step
\* depends on the clock
ConfigsMain == {DefaultConfig(cache, FALSE) : cache \in BOOLEAN}

\* no frame is being encoded or decoded and no authentication computed
CodecIdle ==
    /\ frame_in = <<>>
    /\ frame_wire = <<>>
    /\ frame_out = <<>>
    /\ auth_in = <<>>
    /\ auth_out = <<>>

\* no byte stream is being followed
StreamIdle ==
    /\ net = <<>>
    /\ rpc = "-"
    /\ dispatched = <<>>

\* The engine after obs_websocket_init and obs_websocket_start_daemon have
\* both returned 0: the structure is zeroed by calloc, the state is
\* Disconnected, the daemon thread exists and has not run yet.
EngineFields(cfgs, frames, cmds) ==
    /\ config \in cfgs
    /\ mock_frames = frames
    /\ cmd_budget = cmds
    /\ state = "Disconnected"
    /\ socket_open = FALSE
    /\ should_exit = FALSE
    /\ command_queue_head = [p \in Priorities |-> <<>>]
    /\ command_queue_count = 0
    /\ status_flags = {"DAEMON_READY"}
    /\ current_scene = ""
    /\ stats = [messages_sent |-> 0, scene_switches |-> 0]
    /\ retry_count = 0
    /\ auth_required = FALSE
    /\ last_pong_received = 0
    /\ last_ping_sent = 0
    /\ state_mutex = "free"
    /\ dpc = "loop"
    /\ dcmd = NoCmd
    /\ last_keepalive = 0
    /\ cpc = [c \in Callers |-> "idle"]
    /\ clocal = [c \in Callers |-> [scene |-> "", priority |-> 0, flags |-> {}]]
    /\ cret = [c \in Callers |-> 0]
    /\ now = Epoch0
    /\ nalloc = 0
    /\ accepted = 0
    /\ wire = {}
    /\ discarded = {}
    /\ event = "-"
    /\ everHelloAuth = FALSE
    /\ identified = FALSE
    /\ nthreads = 1
    /\ dflags = {}
    /\ nfree = [id \in 1..cmds |-> 0]
    /\ cb_on = {}
    /\ entered = "-"
    /\ frame_leaked = FALSE
    /\ iter = NoIter
    /\ command_mutex = "free"
    /\ challenge_fresh = FALSE

InitEngine(cfgs, frames, cmds) ==
    /\ EngineFields(cfgs, frames, cmds)
    /\ CodecIdle
    /\ StreamIdle


(* ---------------------------------------------------------------------- *)
(* Helpers                                                                 *)
(* ---------------------------------------------------------------------- *)
\* the ids of the commands in the four priority lists
QueuedIds ==
    UNION {{command_queue_head[p][i].id : i \in 1..Len(command_queue_head[p])}
           : p \in Priorities}

\* number of commands in the four priority lists
QueuedTotal ==
    Len(command_queue_head[0]) + Len(command_queue_head[1])
    + Len(command_queue_head[2]) + Len(command_queue_head[3])

\* obs_set_state: the new state, written under the state mutex
SetState(new_state) == state' = new_state

\* the state, error and scene callbacks are registered: a call of
\* obs_set_state that changes the state, every call of obs_set_error_flag and
\* every scene update invoke one, on the thread that makes the call
Invoked(thread, fired) ==
    cb_on' = IF fired THEN cb_on \cup {thread} ELSE cb_on

\* obs_set_error_flag followed by obs_set_state(OBS_STATE_ERROR)
FailTo(flag) ==
    /\ status_flags' = status_flags \cup {flag}
    /\ SetState("Error")

(* ---------------------------------------------------------------------- *)
(* The daemon thread                                                       *)
(* ---------------------------------------------------------------------- *)
\* A daemon thread runs once pthread_create has started one; the model
\* follows one daemon thread.
\* while (!obs->should_exit) switch (obs->state): both read without a lock.
\* Leaving the loop closes the socket and ends the thread.
DaemonDispatch ==
    /\ event' = "-"
    /\ nthreads > 0
    /\ dpc = "loop"
    /\ IF should_exit
       THEN /\ dpc' = "done"
            /\ socket_open' = FALSE
            /\ UNCHANGED should_exit
       ELSE /\ dpc' = CASE state \in {"Disconnected", "Reconnecting"} -> "connect"
                        [] state = "Authenticating" -> "auth"
                        [] state = "Connected" -> "poll"
                        [] state = "Error" -> "error"
                        [] OTHER -> "loop"
            /\ should_exit' = (state = "ShuttingDown")
            /\ UNCHANGED socket_open
    /\ UNCHANGED <<state, config, command_queue_head, command_queue_count,
                   status_flags, current_scene, stats, retry_count,
                   auth_required, last_pong_received, last_ping_sent,
                   state_mutex, dcmd, last_keepalive, callerVars, envVars,
                   histVars>>
    /\ UNCHANGED <<nthreads, dflags, nfree, cb_on>>
    /\ UNCHANGED <<entered, frame_leaked, codecVars>>
    /\ UNCHANGED <<iter, command_mutex, challenge_fresh, streamVars>>

\* obs_connect_socket, first statement: obs_set_state(OBS_STATE_CONNECTING)
DaemonConnectBegin ==
    /\ event' = "-"
    /\ dpc = "connect"
    /\ state_mutex = "free"
    /\ SetState("Connecting")
    /\ dpc' = "connect_io"
    /\ UNCHANGED <<socket_open, should_exit, config, command_queue_head,
                   command_queue_count, status_flags, current_scene, stats,
                   retry_count, auth_required, last_pong_received,
                   last_ping_sent, state_mutex, dcmd, last_keepalive,
                   callerVars, envVars, histVars>>
    /\ Invoked("daemon", state # "Connecting")
    /\ UNCHANGED <<nthreads, dflags, nfree>>
    /\ UNCHANGED <<entered, frame_leaked, codecVars>>
    /\ UNCHANGED <<iter, command_mutex, challenge_fresh, streamVars>>

\* what socket(), gethostbyname() and connect() may do
ConnectOutcomes == {"ok", "socket_failed", "resolve_failed", "connect_failed"}

\* obs_connect_socket up to the load of line 352.  A failure raises the
\* network-error flag and sets Error; the daemon then sleeps retry_delay_ms
\* (line 216) and loops.  A failed gethostbyname leaves the socket open.
DaemonConnectIO ==
    /\ event' = "-"
    /\ dpc = "connect_io"
    /\ \E outcome \in ConnectOutcomes :
         IF outcome = "ok"
         THEN /\ socket_open' = TRUE
              /\ dflags' = status_flags
              /\ dpc' = "connect_flag"
              /\ identified' = FALSE
              /\ UNCHANGED <<state, status_flags, cb_on>>
         ELSE /\ state_mutex = "free"
              /\ socket_open' = (outcome = "resolve_failed")
              /\ FailTo("NETWORK_ERROR")
              /\ Invoked("daemon", TRUE)
              /\ dpc' = "loop"
              /\ UNCHANGED <<identified, dflags>>
    /\ UNCHANGED <<should_exit, config, command_queue_head,
                   command_queue_count, current_scene, stats, retry_count,
                   auth_required, last_pong_received, last_ping_sent,
                   state_mutex, dcmd, last_keepalive, callerVars, envVars,
                   nalloc, accepted, wire, discarded, everHelloAuth>>
    /\ UNCHANGED <<nthreads, nfree>>
    /\ entered' = "-"
    /\ UNCHANGED <<frame_leaked, codecVars>>
    /\ challenge_fresh' = (challenge_fresh /\ dpc' # "connect_flag")
    /\ UNCHANGED <<iter, command_mutex, streamVars>>

\* what the upgrade request's send() and the response's recv() may do; the
\* socket is blocking and has no receive timeout, so recv() does not return
\* while the server sends nothing and keeps the connection open
HandshakeOutcomes ==
    {"ok", "send_failed", "recv_failed", "not_101", "no_response"}

\* obs_websocket_handshake up to the load of line 400.  With no response the
\* thread stays in recv() (line 383).
DaemonHandshake ==
    /\ event' = "-"
    /\ dpc = "handshake"
    /\ \E outcome \in HandshakeOutcomes :
         CASE outcome = "no_response" ->
                 /\ dpc' = "handshake_recv"
                 /\ UNCHANGED <<status_flags, state, dflags, cb_on>>
           [] outcome = "ok" ->
                 /\ dflags' = status_flags
                 /\ dpc' = "handshake_flag"
                 /\ UNCHANGED <<status_flags, state, cb_on>>
           [] OTHER ->
                 /\ state_mutex = "free"
                 /\ FailTo("PROTOCOL_ERROR")
                 /\ Invoked("daemon", TRUE)
                 /\ dpc' = "loop"
                 /\ UNCHANGED dflags
    /\ UNCHANGED <<socket_open, should_exit, config, command_queue_head,
                   command_queue_count, current_scene, stats, retry_count,
                   auth_required, last_pong_received, last_ping_sent,
                   state_mutex, dcmd, last_keepalive, callerVars, envVars,
                   histVars>>
    /\ UNCHANGED <<nthreads, nfree>>
    /\ UNCHANGED <<entered, frame_leaked, codecVars>>
    /\ UNCHANGED <<iter, command_mutex, challenge_fresh, streamVars>>

\* case OBS_STATE_AUTHENTICATING: obs_authenticate sends Identify through
\* obs_send_frame; on success the state becomes Connected and the update of
\* the Authenticated flag begins.  A failed send raises the network-error
\* flag and leaves the state alone.
DaemonAuth ==
    /\ event' = "-"
    /\ dpc = "auth"
    /\ \E sent \in BOOLEAN :
         IF ~auth_required \/ (socket_open /\ sent)
         THEN /\ state_mutex = "free"
              /\ SetState("Connected")
              /\ Invoked("daemon", state # "Connected")
              /\ dflags' = status_flags
              /\ dpc' = "auth_flag"
              /\ UNCHANGED status_flags
         ELSE /\ socket_open => state_mutex = "free"
              /\ status_flags' =
                    IF socket_open THEN status_flags \cup {"NETWORK_ERROR"}
                    ELSE status_flags
              /\ Invoked("daemon", socket_open)
              /\ dpc' = "loop"
              /\ UNCHANGED <<state, dflags>>
    /\ UNCHANGED <<socket_open, should_exit, config, command_queue_head,
                   command_queue_count, current_scene, stats, retry_count,
                   auth_required, last_pong_received, last_ping_sent,
                   state_mutex, dcmd, last_keepalive, callerVars, envVars,
                   histVars>>
    /\ UNCHANGED <<nthreads, nfree>>
    /\ UNCHANGED <<entered, frame_leaked, codecVars>>
    /\ UNCHANGED <<iter, command_mutex, challenge_fresh, streamVars>>

\* line 290: the test that lets the Error case go to Reconnecting
RetryAllowed_Inclusive(count, max_retries) == count <= max_retries

RetryAllowed(count, max_retries) == count < max_retries

\* case OBS_STATE_ERROR: close the socket, count the retry, and go to
\* Reconnecting while the counter is below max_retries; otherwise sleep and
\* stay in Error.
DaemonError ==
    /\ event' = "-"
    /\ dpc = "error"
    /\ retry_count < config.max_retries + RetrySlack
    /\ socket_open' = FALSE
    /\ retry_count' = retry_count + 1
    /\ IF RetryAllowed(retry_count', config.max_retries)
       THEN /\ state_mutex = "free"
            /\ SetState("Reconnecting")
       ELSE UNCHANGED state
    /\ dpc' = "loop"
    /\ UNCHANGED <<should_exit, config, command_queue_head,
                   command_queue_count, status_flags, current_scene, stats,
                   auth_required, last_pong_received, last_ping_sent,
                   state_mutex, dcmd, last_keepalive, callerVars, envVars,
                   histVars>>
    /\ Invoked("daemon", state' # state)
    /\ UNCHANGED <<nthreads, dflags, nfree>>
    /\ UNCHANGED <<entered, frame_leaked, codecVars>>
    /\ UNCHANGED <<iter, command_mutex, challenge_fresh, streamVars>>

\* What one Connected iteration may find on the socket: poll() failing,
\* poll() timing out, obs_read_frame failing, or one frame.  A final frame is
\* a text frame holding one of the messages obs_process_message tells apart,
\* a pong, or a frame of another opcode; "nonfinal" is a text frame with
\* FIN=0 whose payload announces the scene.  Scene names are shorter than
\* OBS_MAX_SCENE_NAME_LENGTH, so strncpy copies them whole.
PollEvents ==
    {[kind |-> k, scene |-> ""] :
        k \in {"poll_error", "timeout", "read_failed", "hello_auth",
               "hello_noauth", "identified", "request_failed", "bad_json",
               "pong", "other_opcode"}}
    \cup {[kind |-> k, scene |-> s] :
             k \in {"scene_changed", "nonfinal"}, s \in Scenes}

\* the events that need the socket to be readable
FrameKinds ==
    {"read_failed", "hello_auth", "hello_noauth", "identified",
     "request_failed", "bad_json", "pong", "other_opcode", "scene_changed",
     "nonfinal"}

\* the events whose handling takes the state mutex
LockingKinds ==
    {"poll_error", "identified", "request_failed", "bad_json", "scene_changed"}

\* the events whose handling invokes a callback: the error callback from
\* obs_set_error_flag, the scene callback from the scene update
CallbackKinds == {"poll_error", "request_failed", "bad_json", "scene_changed"}

\* obs_process_message's and the pong branch's effect on the engine fields
\* other than state and status_flags
ProcessFields_KeepRetry(ev) ==
    /\ auth_required' = (auth_required \/ ev.kind = "hello_auth")
    /\ retry_count' = retry_count
    /\ current_scene' =
          IF ev.kind = "scene_changed" THEN ev.scene ELSE current_scene
    /\ last_pong_received' =
          IF ev.kind = "pong" THEN now ELSE last_pong_received

ProcessFields_AnyFrame(ev) ==
    /\ auth_required' = (auth_required \/ ev.kind = "hello_auth")
    /\ retry_count' = IF ev.kind = "identified" THEN 0 ELSE retry_count
    /\ current_scene' =
          IF ev.kind \in {"scene_changed", "nonfinal"} THEN ev.scene
          ELSE current_scene
    /\ last_pong_received' =
          IF ev.kind = "pong" THEN now ELSE last_pong_received

ProcessFields(ev) ==
    /\ auth_required' = (auth_required \/ ev.kind = "hello_auth")
    /\ retry_count' = IF ev.kind = "identified" THEN 0 ELSE retry_count
    /\ current_scene' =
          IF ev.kind = "scene_changed" THEN ev.scene ELSE current_scene
    /\ last_pong_received' =
          IF ev.kind = "pong" THEN now ELSE last_pong_received

\* obs_process_message's effect on the status flags
ProcessFlags(ev) ==
    CASE ev.kind = "identified" -> status_flags \ {"AUTH_ERROR"}
      [] ev.kind \in {"request_failed", "bad_json"} ->
            status_flags \cup {"PROTOCOL_ERROR"}
      [] OTHER -> status_flags

\* case OBS_STATE_CONNECTED, lines 230-259: poll the socket and handle at
\* most one frame.  A poll error sets Error and ends the iteration; every
\* other outcome, a failed read included, goes on to the command queue.
PollStep(ev) ==
    /\ event' = "-"
    /\ dpc = "poll"
    /\ ev.kind \in mock_frames
    /\ ev.kind \in FrameKinds => socket_open
    /\ ev.kind \in LockingKinds => state_mutex = "free"
    /\ IF ev.kind = "poll_error"
       THEN /\ FailTo("NETWORK_ERROR")
            /\ dpc' = "loop"
            /\ UNCHANGED <<auth_required, retry_count, current_scene,
                           last_pong_received, dflags>>
       ELSE /\ ProcessFields(ev)
            /\ status_flags' = ProcessFlags(ev)
            /\ dpc' = IF ev.kind = "pong" THEN "pong_flag" ELSE "drain"
            /\ dflags' = IF ev.kind = "pong" THEN status_flags ELSE dflags
            /\ UNCHANGED state
    /\ Invoked("daemon", ev.kind \in CallbackKinds)
    /\ frame_leaked' = (frame_leaked \/ ev.kind = "nonfinal")
    /\ everHelloAuth' = (everHelloAuth \/ ev.kind = "hello_auth")
    /\ identified' = (identified \/ ev.kind = "identified")
    /\ UNCHANGED <<socket_open, should_exit, config, command_queue_head,
                   command_queue_count, stats, last_ping_sent, state_mutex,
                   dcmd, last_keepalive, callerVars, envVars, nalloc, accepted,
                   wire, discarded>>
    /\ UNCHANGED <<nthreads, nfree, entered, codecVars>>
    /\ iter' = IF ev.kind = "poll_error" THEN NoIter
               ELSE IF ev.kind \in FrameKinds
               THEN [iter EXCEPT !.frames = @ + 1]
               ELSE iter
    /\ challenge_fresh' = (challenge_fresh \/ ev.kind = "hello_auth")
    /\ UNCHANGED <<command_mutex, streamVars>>

DaemonPoll == \E ev \in PollEvents : PollStep(ev)

\* the priority level obs_process_command_queue takes a command from: the
\* first non-empty one scanning from Critical down to Low (-1: none)
DrainLevel_LowFirst(q) ==
    IF q[OBS_PRIORITY_LOW] # <<>> THEN OBS_PRIORITY_LOW
    ELSE IF q[OBS_PRIORITY_NORMAL] # <<>> THEN OBS_PRIORITY_NORMAL
    ELSE IF q[OBS_PRIORITY_HIGH] # <<>> THEN OBS_PRIORITY_HIGH
    ELSE IF q[OBS_PRIORITY_CRITICAL] # <<>> THEN OBS_PRIORITY_CRITICAL
    ELSE -1

DrainLevel(q) ==
    IF q[OBS_PRIORITY_CRITICAL] # <<>> THEN OBS_PRIORITY_CRITICAL
    ELSE IF q[OBS_PRIORITY_HIGH] # <<>> THEN OBS_PRIORITY_HIGH
    ELSE IF q[OBS_PRIORITY_NORMAL] # <<>> THEN OBS_PRIORITY_NORMAL
    ELSE IF q[OBS_PRIORITY_LOW] # <<>> THEN OBS_PRIORITY_LOW
    ELSE -1

\* obs->command_queue_count--, in the critical section that unlinks
CountAfterPop_Kept(count) == count

CountAfterPop(count) == count - 1

\* line 905: the command mutex is unlocked once the command is unlinked,
\* before the request is built and sent
CommandMutexAtSend_Held == "daemon"

CommandMutexAtSend == "free"

\* line 936: break; whatever is still queued, the function returns after
\* one command and the iteration goes on to the keepalive check
AfterCommand_DrainAll(q) ==
    IF DrainLevel(q) # -1 THEN "drain" ELSE "keepalive"

AfterCommand(q) == "keepalive"

\* obs_process_command_queue, lines 894-905: under the command mutex,
\* unlink the head of the first non-empty level and decrement the count
DaemonDrainPop ==
    /\ event' = "-"
    /\ dpc = "drain"
    /\ LET lvl == DrainLevel(command_queue_head) IN
         IF lvl = -1
         THEN /\ dpc' = "keepalive"
              /\ UNCHANGED <<command_queue_head, command_queue_count, dcmd>>
         ELSE /\ dcmd' = Head(command_queue_head[lvl])
              /\ command_queue_head' =
                    [command_queue_head EXCEPT ![lvl] = Tail(@)]
              /\ command_queue_count' = CountAfterPop(command_queue_count)
              /\ dpc' = "send"
    /\ UNCHANGED <<state, socket_open, should_exit, config, status_flags,
                   current_scene, stats, retry_count, auth_required,
                   last_pong_received, last_ping_sent, state_mutex,
                   last_keepalive, callerVars, envVars, histVars>>
    /\ UNCHANGED <<nthreads, dflags, nfree, cb_on>>
    /\ UNCHANGED <<entered, frame_leaked, codecVars>>
    /\ command_mutex = "free"
    /\ IF DrainLevel(command_queue_head) = -1
       THEN UNCHANGED <<iter, command_mutex>>
       ELSE /\ iter' = [iter EXCEPT !.cmds = @ + 1]
            /\ command_mutex' = CommandMutexAtSend
    /\ UNCHANGED <<challenge_fresh, streamVars>>

\* obs_process_command_queue, lines 907-935: build the
\* SetCurrentProgramScene request for the popped command, hand it to
\* obs_send_frame, count it in the statistics whatever obs_send_frame
\* returned, and free the command.  obs_send_frame fails without a flag when
\* the socket is closed and with the network-error flag when send() fails.
DaemonDrainSend ==
    /\ event' = "-"
    /\ dpc = "send"
    /\ \E sent \in BOOLEAN :
         LET ok == socket_open /\ sent IN
         /\ (socket_open /\ ~ok) => state_mutex = "free"
         /\ status_flags' =
               IF socket_open /\ ~ok
               THEN status_flags \cup {"NETWORK_ERROR"}
               ELSE status_flags
         /\ wire' = IF ok THEN wire \cup {dcmd.id} ELSE wire
         /\ Invoked("daemon", socket_open /\ ~ok)
    /\ stats' = [stats EXCEPT !.messages_sent = @ + 1,
                              !.scene_switches = @ + 1]
    /\ dcmd' = NoCmd
    /\ dpc' = AfterCommand(command_queue_head)
    /\ UNCHANGED <<state, socket_open, should_exit, config,
                   command_queue_head, command_queue_count, current_scene,
                   retry_count, auth_required, last_pong_received,
                   last_ping_sent, state_mutex, last_keepalive, callerVars,
                   envVars, nalloc, accepted, discarded,
                   everHelloAuth, identified>>
    /\ nfree' = [nfree EXCEPT ![dcmd.id] = @ + 1]
    /\ UNCHANGED <<nthreads, dflags>>
    /\ UNCHANGED <<entered, frame_leaked, codecVars>>
    /\ command_mutex' = "free"
    /\ UNCHANGED <<iter, challenge_fresh, streamVars>>

\* lines 266-267: keepalive is on and the ping interval has elapsed
PingDue ==
    /\ config.enable_keepalive
    /\ (now - last_keepalive) >= (config.ping_interval_ms \div 1000)

\* line 274: no pong within the ping timeout
PongOverdue_Millis ==
    (now - last_pong_received) > config.ping_timeout_ms

PongOverdue ==
    (now - last_pong_received) > (config.ping_timeout_ms \div 1000)

\* case OBS_STATE_CONNECTED, lines 264-279: when a ping is due, send it
\* (obs_send_ping records the send time unless the socket is closed; the
\* local last_keepalive advances only if the frame went out), then check the
\* time since the last pong and on a timeout raise the flag and set Error.
DaemonKeepalive ==
    /\ event' = "-"
    /\ dpc = "keepalive"
    /\ IF PingDue
       THEN \E sent \in BOOLEAN :
                 LET ok == socket_open /\ sent IN
                 /\ ((socket_open /\ ~ok) \/ PongOverdue) => state_mutex = "free"
                 /\ last_ping_sent' = IF socket_open THEN now ELSE last_ping_sent
                 /\ last_keepalive' = IF ok THEN now ELSE last_keepalive
                 /\ LET flags1 == IF socket_open /\ ~ok
                                  THEN status_flags \cup {"NETWORK_ERROR"}
                                  ELSE status_flags
                    IN IF PongOverdue
                       THEN /\ status_flags' = flags1 \cup {"TIMEOUT_ERROR"}
                            /\ SetState("Error")
                            /\ Invoked("daemon", TRUE)
                       ELSE /\ status_flags' = flags1
                            /\ Invoked("daemon", socket_open /\ ~ok)
                            /\ UNCHANGED state
       ELSE UNCHANGED <<last_ping_sent, last_keepalive, status_flags, state,
                        cb_on>>
    /\ dpc' = "loop"
    /\ UNCHANGED <<socket_open, should_exit, config, command_queue_head,
                   command_queue_count, current_scene, stats, retry_count,
                   auth_required, last_pong_received, state_mutex, dcmd,
                   callerVars, envVars, histVars>>
    /\ UNCHANGED <<nthreads, dflags, nfree>>
    /\ UNCHANGED <<entered, frame_leaked, codecVars>>
    /\ iter' = NoIter
    /\ UNCHANGED <<command_mutex, challenge_fresh, streamVars>>

\* The daemon updates status_flags with a plain |= outside the state mutex
\* at lines 224, 248, 352 and 400: a load, an or and a store.  The load is
\* the last thing the step before does (dflags); this step stores, and goes on
\* with what follows the update: obs_clear_error_flag at lines 226, 353 and
\* 401, and after the handshake obs_set_state at line 213.
FlagStorePcs == {"connect_flag", "handshake_flag", "auth_flag", "pong_flag"}

\* the flags after the store at position pc and the clear that follows it
StoredFlags_NoAuthBit(pc, flags) ==
    CASE pc = "connect_flag" ->
            (flags \cup {"SOCKET_CONNECTED"}) \ {"NETWORK_ERROR"}
      [] pc = "handshake_flag" ->
            (flags \cup {"WEBSOCKET_READY"}) \ {"PROTOCOL_ERROR"}
      [] pc = "auth_flag" -> flags \ {"AUTH_ERROR"}
      [] OTHER -> flags \cup {"KEEPALIVE_OK"}

StoredFlags(pc, flags) ==
    CASE pc = "connect_flag" ->
            (flags \cup {"SOCKET_CONNECTED"}) \ {"NETWORK_ERROR"}
      [] pc = "handshake_flag" ->
            (flags \cup {"WEBSOCKET_READY"}) \ {"PROTOCOL_ERROR"}
      [] pc = "auth_flag" -> (flags \cup {"AUTHENTICATED"}) \ {"AUTH_ERROR"}
      [] OTHER -> flags \cup {"KEEPALIVE_OK"}

DaemonStoreFlags ==
    /\ event' = "-"
    /\ dpc \in FlagStorePcs
    /\ dpc # "pong_flag" => state_mutex = "free"
    /\ status_flags' = StoredFlags(dpc, dflags)
    /\ IF dpc = "handshake_flag"
       THEN SetState(IF auth_required THEN "Authenticating" ELSE "Connected")
       ELSE UNCHANGED state
    /\ Invoked("daemon", state' # state)
    /\ dpc' = CASE dpc = "connect_flag" -> "handshake"
                [] dpc = "pong_flag" -> "drain"
                [] OTHER -> "loop"
    /\ dflags' = {}
    /\ UNCHANGED <<socket_open, should_exit, config, command_queue_head,
                   command_queue_count, current_scene, stats, retry_count,
                   auth_required, last_pong_received, last_ping_sent,
                   state_mutex, dcmd, last_keepalive, callerVars, envVars,
                   histVars, nthreads, nfree>>
    /\ entered' = IF dpc = "handshake_flag" THEN state' ELSE entered
    /\ UNCHANGED <<frame_leaked, codecVars>>
    /\ UNCHANGED <<iter, command_mutex, challenge_fresh, streamVars>>

Daemon ==
    \/ DaemonDispatch
    \/ DaemonStoreFlags
    \/ DaemonConnectBegin
    \/ DaemonConnectIO
    \/ DaemonHandshake
    \/ DaemonAuth
    \/ DaemonPoll
    \/ DaemonDrainPop
    \/ DaemonDrainSend
    \/ DaemonKeepalive
    \/ DaemonError

(* ---------------------------------------------------------------------- *)
(* The public facade, called from caller threads                           *)
(* ---------------------------------------------------------------------- *)
\* cleanup has been called: callers use the handle for nothing else from
\* then on ("engine handle invalid afterward")
CleanupCalled ==
    \E c \in Callers :
       cpc[c] \in {"cleanup_set_state", "cleanup_join", "freed", "crashed"}

\* cleanup has returned, or the process has crashed
EngineFreed == \E c \in Callers : cpc[c] \in {"freed", "crashed"}

\* a caller may enter the facade: it holds an engine that init has produced
\* and cleanup has not yet freed
MayCall(c) ==
    /\ cpc[c] = "idle"
    /\ ~EngineFreed
    /\ state # "Uninitialized"

\* what a facade call still in progress does once cleanup has destroyed the
\* mutexes and freed the engine: it works on freed memory, which is
\* undefined; the process crashes, or the memory is still there and the call
\* goes on as if nothing had happened
UseAfterFreeOutcomes == {"crash", "proceeds"}

\* obs_websocket_validate_config for a non-null configuration
ValidateConfig_NoUpperPort(cfg) ==
    IF cfg.host = "" THEN -2
    ELSE IF cfg.port <= 0 THEN -3
    ELSE IF cfg.command_queue_size = 0 THEN -4
    ELSE 0

ValidateConfig(cfg) ==
    IF cfg.host = "" THEN -2
    ELSE IF cfg.port <= 0 \/ cfg.port > 65535 THEN -3
    ELSE IF cfg.command_queue_size = 0 THEN -4
    ELSE 0

\* obs_websocket_init with the configuration held in config: -2 and no
\* engine when validation fails; otherwise a zeroed structure with the
\* fields of lines 133-140 assigned, the state set to Disconnected by
\* obs_set_state (no callback is registered yet) and 0 returned.  "No
\* engine" is the state Uninitialized.
InitCall(c) ==
    /\ event' = "-"
    /\ cpc[c] = "idle"
    /\ state = "Uninitialized"
    /\ IF ValidateConfig(config) # 0
       THEN /\ cret' = [cret EXCEPT ![c] = -2]
            /\ UNCHANGED <<state, socket_open, should_exit,
                           command_queue_head, command_queue_count,
                           status_flags, current_scene, stats, retry_count,
                           auth_required, last_pong_received, last_ping_sent>>
       ELSE /\ cret' = [cret EXCEPT ![c] = 0]
            /\ SetState("Disconnected")
            /\ socket_open' = FALSE
            /\ should_exit' = FALSE
            /\ command_queue_head' = [p \in Priorities |-> <<>>]
            /\ command_queue_count' = 0
            /\ status_flags' = {}
            /\ current_scene' = ""
            /\ stats' = [messages_sent |-> 0, scene_switches |-> 0]
            /\ retry_count' = 0
            /\ auth_required' = FALSE
            /\ last_pong_received' = 0
            /\ last_ping_sent' = 0
    /\ UNCHANGED <<config, state_mutex, daemonVars, cpc, clocal, envVars,
                   histVars, nthreads, dflags, nfree, cb_on>>
    /\ UNCHANGED <<entered, frame_leaked, codecVars>>
    /\ UNCHANGED <<iter, command_mutex, challenge_fresh, streamVars>>

\* line 186: start_daemon goes on to pthread_create
MayStart_NotConnected == state # "Connected"

MayStart == state = "Disconnected"

\* obs_websocket_start_daemon: under the state mutex, -2 unless the state is
\* Disconnected; otherwise pthread_create, whose result is returned, and on
\* success the daemon-ready flag.
StartDaemon(c) ==
    /\ event' = "-"
    /\ MayCall(c)
    /\ state_mutex = "free"
    /\ IF ~MayStart
       THEN /\ cret' = [cret EXCEPT ![c] = -2]
            /\ UNCHANGED <<nthreads, status_flags>>
       ELSE \E created \in BOOLEAN :
               IF created
               THEN /\ nthreads < MaxThreads
                    /\ nthreads' = nthreads + 1
                    /\ status_flags' = status_flags \cup {"DAEMON_READY"}
                    /\ cret' = [cret EXCEPT ![c] = 0]
               ELSE /\ cret' = [cret EXCEPT ![c] = EAGAIN]
                    /\ UNCHANGED <<nthreads, status_flags>>
    /\ UNCHANGED <<state, socket_open, should_exit, config,
                   command_queue_head, command_queue_count, current_scene,
                   stats, retry_count, auth_required, last_pong_received,
                   last_ping_sent, state_mutex, daemonVars, cpc, clocal,
                   envVars, histVars, dflags, nfree, cb_on>>
    /\ UNCHANGED <<entered, frame_leaked, codecVars>>
    /\ UNCHANGED <<iter, command_mutex, challenge_fresh, streamVars>>

\* lines 411-412: scene caching is on and the name is the cached scene
SceneCached_Inverted(scene_name) ==
    config.enable_scene_cache /\ current_scene # scene_name

SceneCached(scene_name) ==
    config.enable_scene_cache /\ current_scene = scene_name

\* obs_websocket_switch_scene, lines 407-416: under the state mutex, return
\* 0 at once when scene caching is on and the name is the cached scene;
\* otherwise go on to allocate and enqueue the command.
SwitchSceneCheck(c, scene_name, priority) ==
    /\ MayCall(c)
    /\ state_mutex = "free"
    /\ IF SceneCached(scene_name)
       THEN /\ cret' = [cret EXCEPT ![c] = 0]
            /\ event' = "fast_path"
            /\ UNCHANGED <<cpc, clocal, nalloc>>
       ELSE /\ nalloc < cmd_budget
            /\ nalloc' = nalloc + 1
            /\ cpc' = [cpc EXCEPT ![c] = "enqueue"]
            /\ clocal' = [clocal EXCEPT ![c].scene = scene_name,
                                        ![c].priority = priority]
            /\ event' = "-"
            /\ UNCHANGED cret
    /\ UNCHANGED <<engineVars, daemonVars, envVars, accepted, wire, discarded, everHelloAuth, identified>>
    /\ UNCHANGED <<nthreads, dflags, nfree, cb_on>>
    /\ UNCHANGED <<entered, frame_leaked, codecVars>>
    /\ UNCHANGED <<iter, command_mutex, challenge_fresh, streamVars>>

\* line 435: the queue has no room
QueueIsFull_Offline ==
    \/ command_queue_count >= config.command_queue_size
    \/ state # "Connected"

QueueIsFull_OffByOne == command_queue_count > config.command_queue_size

QueueIsFull == command_queue_count >= config.command_queue_size

\* lines 442-445: cmd->next = head; head = cmd
LinkCommand_AtTail(cmd, list) == list \o <<cmd>>

LinkCommand(cmd, list) == <<cmd>> \o list

\* obs_websocket_switch_scene, lines 432-450: under the command mutex,
\* reject the command when the count has reached command_queue_size (free
\* it, raise the queue-full flag, return -3); otherwise link it at the head
\* of its priority list, increment the count and return 0.
SwitchSceneEnqueue(c) ==
    /\ cpc[c] = "enqueue"
    /\ \E touch \in UseAfterFreeOutcomes :
         IF EngineFreed /\ touch = "crash"
         THEN /\ cpc' = [cpc EXCEPT ![c] = "crashed"]
              /\ event' = "-"
              /\ UNCHANGED <<command_queue_head, command_queue_count,
                             accepted, status_flags, cret, cb_on>>
         ELSE /\ cpc' = [cpc EXCEPT ![c] = "idle"]
              /\ command_mutex = "free"
              /\ IF QueueIsFull
                 THEN /\ state_mutex = "free"
                      /\ status_flags' = status_flags \cup {"QUEUE_FULL"}
                      /\ cret' = [cret EXCEPT ![c] = -3]
                      /\ event' = "-"
                      /\ Invoked(c, TRUE)
                      /\ UNCHANGED <<command_queue_head, command_queue_count,
                                     accepted>>
                 ELSE /\ command_queue_head' =
                            [command_queue_head EXCEPT ![clocal[c].priority] =
                                LinkCommand([id |-> accepted + 1,
                                             scene_name |-> clocal[c].scene,
                                             priority |-> clocal[c].priority],
                                            @)]
                      /\ command_queue_count' = command_queue_count + 1
                      /\ cret' = [cret EXCEPT ![c] = 0]
                      /\ accepted' = accepted + 1
                      /\ event' = "enqueued"
                      /\ UNCHANGED <<status_flags, cb_on>>
    /\ UNCHANGED <<state, socket_open, should_exit, config, current_scene,
                   stats, retry_count, auth_required, last_pong_received,
                   last_ping_sent, state_mutex, daemonVars, clocal, envVars,
                   nalloc, wire, discarded, everHelloAuth, identified>>
    /\ UNCHANGED <<nthreads, dflags, nfree>>
    /\ UNCHANGED <<entered, frame_leaked, codecVars>>
    /\ UNCHANGED <<iter, command_mutex, challenge_fresh, streamVars>>

\* what locking a mutex the thread already holds does: POSIX leaves it
\* undefined for a mutex of the default type (pthread_mutex_init(.., NULL),
\* lines 143 and 148); the thread blocks for ever (glibc, musl) or the lock
\* call returns an error, which obs_set_state does not look at
RelockOutcomes == {"blocks", "returns"}

\* obs_websocket_reconnect.  In a state other than Connected: lock, test,
\* unlock, return 0.  In Connected the function calls obs_set_state while it
\* holds the state mutex and obs_set_state locks the same mutex.  Where that
\* blocks the caller stops there with the mutex held ("reconnect_set_state")
\* and lines 537-538 are never reached; where it returns, obs_set_state sets
\* the state and unlocks, and the function resets the retry counter.
Reconnect(c) ==
    /\ event' = "-"
    /\ MayCall(c)
    /\ state_mutex = "free"
    /\ IF state = "Connected"
       THEN \E relock \in RelockOutcomes :
               IF relock = "blocks"
               THEN /\ state_mutex' = c
                    /\ cpc' = [cpc EXCEPT ![c] = "reconnect_set_state"]
                    /\ UNCHANGED <<cret, state, retry_count, cb_on>>
               ELSE /\ SetState("Reconnecting")
                    /\ retry_count' = 0
                    /\ Invoked(c, TRUE)
                    /\ cret' = [cret EXCEPT ![c] = 0]
                    /\ UNCHANGED <<state_mutex, cpc>>
       ELSE /\ cret' = [cret EXCEPT ![c] = 0]
            /\ UNCHANGED <<state_mutex, cpc, state, retry_count, cb_on>>
    /\ UNCHANGED <<socket_open, should_exit, config,
                   command_queue_head, command_queue_count, status_flags,
                   current_scene, stats, auth_required,
                   last_pong_received, last_ping_sent, daemonVars, clocal,
                   envVars, histVars>>
    /\ UNCHANGED <<nthreads, dflags, nfree>>
    /\ UNCHANGED <<entered, frame_leaked, codecVars>>
    /\ UNCHANGED <<iter, command_mutex, challenge_fresh, streamVars>>

\* the value obs_websocket_is_ready returns (1: true, 0: false) for the
\* state and the flags it has read
IsReadyValue_NoProtocol(st, flags) ==
    IF /\ st = "Connected"
       /\ "AUTHENTICATED" \in flags
       /\ flags \cap {"NETWORK_ERROR", "AUTH_ERROR"} = {}
    THEN 1 ELSE 0

IsReadyValue(st, flags) ==
    IF /\ st = "Connected"
       /\ "AUTHENTICATED" \in flags
       /\ flags \cap {"NETWORK_ERROR", "AUTH_ERROR", "PROTOCOL_ERROR"} = {}
    THEN 1 ELSE 0

\* obs_websocket_is_ready, line 497: obs_websocket_get_status_flags
IsReadyFlags(c) ==
    /\ event' = "-"
    /\ MayCall(c)
    /\ state_mutex = "free"
    /\ clocal' = [clocal EXCEPT ![c].flags = status_flags]
    /\ cpc' = [cpc EXCEPT ![c] = "is_ready_state"]
    /\ UNCHANGED <<engineVars, daemonVars, cret, envVars, histVars>>
    /\ UNCHANGED <<nthreads, dflags, nfree, cb_on>>
    /\ UNCHANGED <<entered, frame_leaked, codecVars>>
    /\ UNCHANGED <<iter, command_mutex, challenge_fresh, streamVars>>

\* obs_websocket_is_ready, lines 498-500: obs_websocket_get_state, and the
\* result from that state and the flags read before
IsReadyState(c) ==
    /\ event' = "-"
    /\ cpc[c] = "is_ready_state"
    /\ state_mutex = "free"
    /\ cret' = [cret EXCEPT ![c] = IsReadyValue(state, clocal[c].flags)]
    /\ cpc' = [cpc EXCEPT ![c] = "idle"]
    /\ clocal' = [clocal EXCEPT ![c].flags = {}]
    /\ UNCHANGED <<engineVars, daemonVars, envVars, histVars>>
    /\ UNCHANGED <<nthreads, dflags, nfree, cb_on>>
    /\ UNCHANGED <<entered, frame_leaked, codecVars>>
    /\ UNCHANGED <<iter, command_mutex, challenge_fresh, streamVars>>

\* obs_websocket_cleanup, line 550: set the exit flag (no lock).  Nothing
\* makes it wait for facade calls other threads have in progress; it is
\* called once.
CleanupBegin(c) ==
    /\ event' = "-"
    /\ MayCall(c)
    /\ ~CleanupCalled
    /\ should_exit' = TRUE
    /\ cpc' = [cpc EXCEPT ![c] = "cleanup_set_state"]
    /\ UNCHANGED <<state, socket_open, config, command_queue_head,
                   command_queue_count, status_flags, current_scene, stats,
                   retry_count, auth_required, last_pong_received,
                   last_ping_sent, state_mutex, daemonVars, clocal,
                   cret, envVars, histVars>>
    /\ UNCHANGED <<nthreads, dflags, nfree, cb_on>>
    /\ UNCHANGED <<entered, frame_leaked, codecVars>>
    /\ UNCHANGED <<iter, command_mutex, challenge_fresh, streamVars>>

\* obs_websocket_cleanup, line 551: obs_set_state(OBS_STATE_SHUTTING_DOWN)
CleanupSetState(c) ==
    /\ event' = "-"
    /\ cpc[c] = "cleanup_set_state"
    /\ state_mutex = "free"
    /\ SetState("ShuttingDown")
    /\ cpc' = [cpc EXCEPT ![c] = "cleanup_join"]
    /\ UNCHANGED <<socket_open, should_exit, config, command_queue_head,
                   command_queue_count, status_flags, current_scene, stats,
                   retry_count, auth_required, last_pong_received,
                   last_ping_sent, state_mutex, daemonVars, clocal,
                   cret, envVars, histVars>>
    /\ Invoked(c, state # "ShuttingDown")
    /\ UNCHANGED <<nthreads, dflags, nfree>>
    /\ UNCHANGED <<entered, frame_leaked, codecVars>>
    /\ UNCHANGED <<iter, command_mutex, challenge_fresh, streamVars>>

\* what pthread_join does with the zeroed daemon_thread of an engine whose
\* daemon was never started: the handle names no thread and the behaviour is
\* undefined; glibc and musl dereference it, an implementation that checks
\* returns ESRCH, which cleanup does not look at
JoinNoThreadOutcomes == {"crash", "returns"}

\* obs_websocket_cleanup, lines 557-585: once pthread_join has returned,
\* close the socket, free every command still in the four lists, destroy
\* the mutexes and free the engine.
\* lines 565-574: the commands cleanup frees, those linked in the four lists
FreedByCleanup == QueuedIds

CleanupJoin(c) ==
    /\ event' = "-"
    /\ cpc[c] = "cleanup_join"
    /\ nthreads > 0 => dpc = "done"
    /\ \E joined \in JoinNoThreadOutcomes :
         IF nthreads = 0 /\ joined = "crash"
         THEN /\ cpc' = [cpc EXCEPT ![c] = "crashed"]
              /\ UNCHANGED <<socket_open, discarded, cret, nfree>>
         ELSE /\ socket_open' = FALSE
              /\ discarded' = FreedByCleanup
              /\ nfree' = [id \in DOMAIN nfree |->
                              IF id \in FreedByCleanup THEN nfree[id] + 1
                              ELSE nfree[id]]
              /\ cret' = [cret EXCEPT ![c] = 0]
              /\ cpc' = [cpc EXCEPT ![c] = "freed"]
    /\ UNCHANGED <<state, should_exit, config, command_queue_head,
                   command_queue_count, status_flags, current_scene, stats,
                   retry_count, auth_required, last_pong_received,
                   last_ping_sent, state_mutex, daemonVars, clocal, envVars,
                   nalloc, accepted, wire,
                   everHelloAuth, identified>>
    /\ UNCHANGED <<nthreads, dflags, cb_on>>
    /\ UNCHANGED <<entered, frame_leaked, codecVars>>
    /\ UNCHANGED <<iter, command_mutex, challenge_fresh, streamVars>>

(* ---------------------------------------------------------------------- *)
(* Specifications                                                          *)
(* ---------------------------------------------------------------------- *)
\* every poll outcome
AllKinds ==
    {"poll_error", "timeout", "read_failed", "hello_auth", "hello_noauth",
     "identified", "request_failed", "bad_json", "pong", "other_opcode",
     "scene_changed", "nonfinal"}

\* the scene names callers ask for
CallerScenes == {"A"}

\* Spec: the connection state machine against an arbitrary server, with one
\* caller thread using reconnect, is_ready, cleanup and switch_scene.
Init == InitEngine(ConfigsMain, AllKinds, MaxCmdsConn)

ConnCaller(c) ==
    \/ \E scene_name \in CallerScenes :
          SwitchSceneCheck(c, scene_name, OBS_PRIORITY_NORMAL)
    \/ SwitchSceneEnqueue(c)
    \/ Reconnect(c)
    \/ IsReadyFlags(c)
    \/ IsReadyState(c)
    \/ CleanupBegin(c)
    \/ CleanupSetState(c)
    \/ CleanupJoin(c)

Next == Daemon \/ ConnCaller("c1")

Spec == Init /\ [][Next]_vars

\* SpecQueue: the command queue.  Caller threads use switch_scene and
\* cleanup; the server announces scene changes and may demand
\* authentication, and connects, handshakes, polls and sends may fail.
QueueKinds == {"poll_error", "timeout", "hello_auth", "scene_changed"}

InitQueue == InitEngine(ConfigsMain, QueueKinds, MaxCmds)

QueueCaller(c) ==
    \/ \E scene_name \in CallerScenes, priority \in Priorities :
          SwitchSceneCheck(c, scene_name, priority)
    \/ SwitchSceneEnqueue(c)
    \/ CleanupBegin(c)
    \/ CleanupSetState(c)
    \/ CleanupJoin(c)

NextQueue == Daemon \/ QueueCaller("c1")

SpecQueue == InitQueue /\ [][NextQueue]_vars

\* SpecKeepalive: the keepalive timer.  The clock advances in seconds, the
\* server answers pings or stays silent, and a caller thread uses
\* switch_scene.  The intervals are scaled down to a few seconds, once with
\* the timeout below the ping interval (as in the default configuration) and
\* once above it.
KeepaliveKinds == {"timeout", "pong", "hello_auth"}

ConfigsKeepalive ==
    {[DefaultConfig(FALSE, TRUE) EXCEPT !.ping_interval_ms = 2000,
                                        !.ping_timeout_ms = t] :
        t \in {1000, 3000}}

InitKeepalive == InitEngine(ConfigsKeepalive, KeepaliveKinds, MaxCmdsConn)

\* time(NULL) moves on by a second
Tick ==
    /\ event' = "-"
    /\ now < Epoch0 + MaxTicks
    /\ now' = now + 1
    /\ UNCHANGED <<engineVars, daemonVars, callerVars, mock_frames,
                   cmd_budget, histVars>>
    /\ UNCHANGED <<nthreads, dflags, nfree, cb_on>>
    /\ UNCHANGED <<entered, frame_leaked, codecVars>>
    /\ UNCHANGED <<iter, command_mutex, challenge_fresh, streamVars>>

KeepaliveCaller(c) ==
    \/ \E scene_name \in CallerScenes :
          SwitchSceneCheck(c, scene_name, OBS_PRIORITY_NORMAL)
    \/ SwitchSceneEnqueue(c)

NextKeepalive == Daemon \/ Tick \/ KeepaliveCaller("c1")

SpecKeepalive == InitKeepalive /\ [][NextKeepalive]_vars

\* SpecLife: construction and start.  A caller thread calls init with some
\* configuration, start_daemon any number of times, switch_scene and cleanup,
\* in any order that keeps to an engine init has produced.
LifeKinds == {"poll_error", "timeout", "hello_auth"}

ConfigsLife ==
    {[DefaultConfig(FALSE, FALSE) EXCEPT !.host = h, !.port = p,
                                         !.command_queue_size = n] :
        h \in {"", "localhost"}, p \in {-1, 0, 1, 65535, 65536},
        n \in {0, 2}}

\* before obs_websocket_init: no engine, no thread
InitLife ==
    /\ config \in ConfigsLife
    /\ mock_frames = LifeKinds
    /\ cmd_budget = MaxCmdsConn
    /\ state = "Uninitialized"
    /\ socket_open = FALSE
    /\ should_exit = FALSE
    /\ command_queue_head = [p \in Priorities |-> <<>>]
    /\ command_queue_count = 0
    /\ status_flags = {}
    /\ current_scene = ""
    /\ stats = [messages_sent |-> 0, scene_switches |-> 0]
    /\ retry_count = 0
    /\ auth_required = FALSE
    /\ last_pong_received = 0
    /\ last_ping_sent = 0
    /\ state_mutex = "free"
    /\ nthreads = 0
    /\ dpc = "loop"
    /\ dcmd = NoCmd
    /\ last_keepalive = 0
    /\ dflags = {}
    /\ cpc = [c \in Callers |-> "idle"]
    /\ clocal = [c \in Callers |-> [scene |-> "", priority |-> 0, flags |-> {}]]
    /\ cret = [c \in Callers |-> 0]
    /\ now = Epoch0
    /\ nalloc = 0
    /\ accepted = 0
    /\ wire = {}
    /\ discarded = {}
    /\ everHelloAuth = FALSE
    /\ identified = FALSE
    /\ nfree = [id \in 1..MaxCmdsConn |-> 0]
    /\ cb_on = {}
    /\ entered = "-"
    /\ frame_leaked = FALSE
    /\ iter = NoIter
    /\ command_mutex = "free"
    /\ challenge_fresh = FALSE
    /\ CodecIdle
    /\ StreamIdle
    /\ event = "-"

LifeCaller(c) ==
    \/ InitCall(c)
    \/ StartDaemon(c)
    \/ \E scene_name \in CallerScenes :
          SwitchSceneCheck(c, scene_name, OBS_PRIORITY_NORMAL)
    \/ SwitchSceneEnqueue(c)
    \/ CleanupBegin(c)
    \/ CleanupSetState(c)
    \/ CleanupJoin(c)

NextLife == Daemon \/ LifeCaller("c1")

SpecLife == InitLife /\ [][NextLife]_vars

\* SpecShutdown: two caller threads.  Both use switch_scene and either may
\* call cleanup, also while the other is inside switch_scene; no call is
\* started on an engine cleanup has freed.
ShutdownKinds == {"poll_error", "timeout", "hello_auth"}

InitShutdown == InitEngine(ConfigsMain, ShutdownKinds, MaxCmdsShutdown)

ShutdownCaller(c) ==
    \/ \E scene_name \in CallerScenes,
          priority \in {OBS_PRIORITY_NORMAL, OBS_PRIORITY_CRITICAL} :
          SwitchSceneCheck(c, scene_name, priority)
    \/ SwitchSceneEnqueue(c)
    \/ CleanupBegin(c)
    \/ CleanupSetState(c)
    \/ CleanupJoin(c)

NextShutdown == Daemon \/ ShutdownCaller("c1") \/ ShutdownCaller("c2")

SpecShutdown == InitShutdown /\ [][NextShutdown]_vars

(* ---------------------------------------------------------------------- *)
(* The frame codec                                                         *)
(* ---------------------------------------------------------------------- *)
WS_OPCODE_TEXT == 1
WS_OPCODE_CLOSE == 8
WS_OPCODE_PING == 9

\* a ^ b on unsigned values
RECURSIVE BitXor(_, _)
BitXor(a, b) ==
    IF a = 0 THEN b
    ELSE IF b = 0 THEN a
    ELSE ((a + b) % 2) + 2 * BitXor(a \div 2, b \div 2)

\* data[i] ^ mask_key[i % 4] for i = 0 .. len-1 (lines 725-727, 793-797)
MaskBytes(data, mask_key) ==
    [i \in 1..Len(data) |-> BitXor(data[i], mask_key[((i - 1) % 4) + 1])]

\* the n bytes of v, most significant first: (v >> (8 * (n-1-i))) & 0xFF
RECURSIVE BigEndian(_, _)
BigEndian(v, n) ==
    IF n = 0 THEN <<>> ELSE Append(BigEndian(v \div 256, n - 1), v % 256)

\* obs_send_frame lines 689-705: the second header byte and the extended
\* length for a payload of len bytes, the mask bit set
LengthBytes_Inline126(len) ==
    IF len <= 126 THEN <<128 + (len % 128)>>
    ELSE IF len < 65536 THEN <<128 + 126>> \o BigEndian(len % 65536, 2)
    ELSE <<128 + 127>> \o BigEndian(len, 8)

LengthBytes(len) ==
    IF len < 126 THEN <<128 + (len % 128)>>
    ELSE IF len < 65536 THEN <<128 + 126>> \o BigEndian(len % 65536, 2)
    ELSE <<128 + 127>> \o BigEndian(len, 8)

\* obs_send_frame on an open socket whose send() takes every byte: the bytes
\* written, header[0] = 0x80 | (opcode & 0x0F) first.  data is the payload
\* as a sequence of bytes, len its length, mask_key the four rand() & 0xFF.
SendFrame(data, opcode, mask_key) ==
    <<128 + (opcode % 16)>> \o LengthBytes(Len(data)) \o mask_key
    \o MaskBytes(data, mask_key)

\* the big-endian value of the bytes: payload_len = (payload_len << 8) | b
RECURSIVE FromBigEndian(_)
FromBigEndian(bytes) ==
    IF bytes = <<>> THEN 0
    ELSE 256 * FromBigEndian(SubSeq(bytes, 1, Len(bytes) - 1))
         + bytes[Len(bytes)]

\* obs_read_frame's failure (lines 744, 755, 759, 769, 782-786)
ReadFailed ==
    [ret |-> -1, opcode |-> 0, len |-> 0, null |-> TRUE, data |-> <<>>]

\* obs_read_frame on a socket that holds the bytes of stream and then
\* nothing more (recv returns what is there, then 0): the return value, and
\* *opcode, *len and *data.  data is NULL for an empty payload.
ReadFrame(stream) ==
    IF Len(stream) < 2 THEN ReadFailed
    ELSE
    LET fin == (stream[1] \div 128) % 2
        opcode == stream[1] % 16
        masked == (stream[2] \div 128) % 2
        len7 == stream[2] % 128
        ext == IF len7 = 126 THEN 2 ELSE IF len7 = 127 THEN 8 ELSE 0
    IN  IF Len(stream) < 2 + ext THEN ReadFailed
        ELSE
        LET payload_len ==
                IF ext = 0 THEN len7
                ELSE FromBigEndian(SubSeq(stream, 3, 2 + ext))
            at_key == 2 + ext
            at_data == at_key + 4 * masked
        IN  IF Len(stream) < at_data + payload_len THEN ReadFailed
            ELSE
            LET raw == SubSeq(stream, at_data + 1, at_data + payload_len)
                mask_key == SubSeq(stream, at_key + 1, at_key + 4)
            IN  [ret |-> IF fin = 1 THEN 0 ELSE 1,
                 opcode |-> opcode,
                 len |-> payload_len,
                 null |-> payload_len = 0,
                 data |-> IF payload_len = 0 THEN <<>>
                          ELSE IF masked = 1 THEN MaskBytes(raw, mask_key)
                          ELSE raw]

\* SpecFrame: the codec looped back through a transport that carries every
\* byte.  The payloads have the lengths at which the length encoding
\* changes; their bytes run through all values from a start value.
PayloadLengths == {0, 1, 125, 126, 65535, 65536}

Payload(len, start) == [i \in 1..len |-> (start + i) % 256]

FrameInputs ==
    {[data |-> Payload(len, start), opcode |-> opcode, mask_key |-> key] :
        len \in PayloadLengths, start \in {0, 200},
        opcode \in {WS_OPCODE_TEXT, WS_OPCODE_CLOSE, WS_OPCODE_PING},
        key \in {<<0, 0, 0, 0>>, <<255, 1, 128, 77>>}}

InitFrame ==
    /\ EngineFields({DefaultConfig(FALSE, FALSE)}, {}, 0)
    /\ StreamIdle
    /\ frame_in \in FrameInputs
    /\ frame_wire = <<>>
    /\ frame_out = <<>>
    /\ auth_in = <<>>
    /\ auth_out = <<>>

\* obs_send_frame writes the frame
FrameSend ==
    /\ frame_wire = <<>>
    /\ frame_wire' = SendFrame(frame_in.data, frame_in.opcode, frame_in.mask_key)
    /\ UNCHANGED <<threadVars, streamVars, frame_in, frame_out, auth_in, auth_out>>

\* obs_read_frame reads what was written
FrameRead ==
    /\ frame_wire # <<>>
    /\ frame_out = <<>>
    /\ frame_out' = ReadFrame(frame_wire)
    /\ UNCHANGED <<threadVars, streamVars, frame_in, frame_wire, auth_in, auth_out>>

NextFrame == FrameSend \/ FrameRead

SpecFrame == InitFrame /\ [][NextFrame]_vars

(* ---------------------------------------------------------------------- *)
(* The authenticator                                                       *)
(* ---------------------------------------------------------------------- *)
\* A byte string is a sequence of symbols, a symbol being a character or a
\* value OpenSSL computed.  SHA-256 and base64 are library functions: the
\* digest of a message and the text of a digest are values that determine
\* their argument, and the text holds no NUL, so strlen gives its length.
Chr(c) == [tag |-> c, kids |-> <<>>]

Text(chars) == [i \in 1..Len(chars) |-> Chr(chars[i])]

\* SHA256_Init, SHA256_Update, SHA256_Final: the context gathers the
\* message in the order of the updates
SHA256_Init == <<>>

SHA256_Update(ctx, data, len) == ctx \o SubSeq(data, 1, len)

SHA256_Final(ctx) == [tag |-> "sha256", kids |-> ctx]

\* SHA-256 of a message given at once
SHA256(message) ==
    SHA256_Final(SHA256_Update(SHA256_Init, message, Len(message)))

\* obs_base64_encode: the base64 text of the digest, without newline
obs_base64_encode(input) == <<[tag |-> "base64", kids |-> <<input>>]>>

strlen(str) == Len(str)

\* obs_authenticate with authentication required, lines 946-981: the Identify
\* message handed to obs_send_frame
Authenticate_SaltFirst(password, salt, challenge) ==
    LET ctx1 == SHA256_Update(SHA256_Init, salt, strlen(salt))
        secret_hash ==
            SHA256_Final(SHA256_Update(ctx1, password, strlen(password)))
        secret_b64 == obs_base64_encode(secret_hash)
        ctx2 == SHA256_Update(SHA256_Init, secret_b64, strlen(secret_b64))
        auth_hash ==
            SHA256_Final(SHA256_Update(ctx2, challenge, strlen(challenge)))
        auth_b64 == obs_base64_encode(auth_hash)
    IN  [op |-> 1,
         d |-> [rpcVersion |-> 1, authentication |-> auth_b64,
                eventSubscriptions |-> 33]]

Authenticate(password, salt, challenge) ==
    LET ctx1 == SHA256_Update(SHA256_Init, password, strlen(password))
        secret_hash == SHA256_Final(SHA256_Update(ctx1, salt, strlen(salt)))
        secret_b64 == obs_base64_encode(secret_hash)
        ctx2 == SHA256_Update(SHA256_Init, secret_b64, strlen(secret_b64))
        auth_hash ==
            SHA256_Final(SHA256_Update(ctx2, challenge, strlen(challenge)))
        auth_b64 == obs_base64_encode(auth_hash)
    IN  [op |-> 1,
         d |-> [rpcVersion |-> 1, authentication |-> auth_b64,
                eventSubscriptions |-> 33]]

\* SpecAuth: obs_authenticate run on a password and on the salt and the
\* challenge a Hello has left in the engine
Passwords == {Text(<<>>), Text(<<"a">>), Text(<<"a", "b">>),
              Text(<<"a", "b", "c">>), Text(<<"s">>)}
Salts == {Text(<<>>), Text(<<"s">>), Text(<<"s", "1">>), Text(<<"b">>),
          Text(<<"c", "1">>)}
Challenges == {Text(<<>>), Text(<<"c">>), Text(<<"c", "1">>), Text(<<"s">>),
               Text(<<"s", "1">>)}

InitAuth ==
    /\ EngineFields({DefaultConfig(FALSE, FALSE)}, {}, 0)
    /\ StreamIdle
    /\ frame_in = <<>>
    /\ frame_wire = <<>>
    /\ frame_out = <<>>
    /\ auth_in \in [password : Passwords, salt : Salts,
                    challenge : Challenges]
    /\ auth_out = <<>>

\* one run of obs_authenticate; a later run (the daemon calls it again while
\* the state is Authenticating) computes the message anew
AuthRun ==
    /\ auth_out' = Authenticate(auth_in.password, auth_in.salt,
                                auth_in.challenge)
    /\ UNCHANGED <<threadVars, streamVars, frame_in, frame_wire, frame_out, auth_in>>

NextAuth == AuthRun

SpecAuth == InitAuth /\ [][NextAuth]_vars

(* ---------------------------------------------------------------------- *)
(* The callback sites                                                      *)
(* ---------------------------------------------------------------------- *)
\* SpecCallback: obs_set_state, obs_set_error_flag and the scene update of
\* obs_process_message taken alone, on the daemon thread, with the three
\* callbacks registered.  A callback either returns straight away or calls
\* one read-only function of the facade first.  dpc is "loop" between two
\* calls, "callback" while a callback runs, "callback_return" once the
\* function it called has returned and "callback_blocked" when that function
\* does not return.

\* the read-only functions of the facade; each locks the state mutex (lines
\* 457, 467, 477 and 487), is_ready through obs_websocket_get_status_flags
Getters ==
    {"get_state", "get_status_flags", "get_current_scene", "get_statistics",
     "is_ready"}

\* the states the engine passes to obs_set_state
SetStateArgs ==
    {"Connecting", "Connected", "Error", "Reconnecting", "ShuttingDown"}

\* the flags the daemon thread passes to obs_set_error_flag
SetErrorFlagArgs == {"NETWORK_ERROR", "PROTOCOL_ERROR", "TIMEOUT_ERROR"}

InitCallback ==
    /\ EngineFields({DefaultConfig(FALSE, FALSE)}, {}, 0)
    /\ CodecIdle
    /\ StreamIdle

\* obs_set_state, lines 589-598: lock, assign, and with a change of state
\* invoke the state callback; the mutex is unlocked after the callback
CallSetState(new_state) ==
    /\ event' = "-"
    /\ dpc = "loop"
    /\ state_mutex = "free"
    /\ state' = new_state
    /\ IF state # new_state
       THEN /\ state_mutex' = "daemon"
            /\ dpc' = "callback"
            /\ Invoked("daemon", TRUE)
       ELSE UNCHANGED <<state_mutex, dpc, cb_on>>
    /\ UNCHANGED <<socket_open, should_exit, config, command_queue_head,
                   command_queue_count, status_flags, current_scene, stats,
                   retry_count, auth_required, last_pong_received,
                   last_ping_sent, dcmd, last_keepalive, callerVars, envVars,
                   histVars>>
    /\ UNCHANGED <<nthreads, dflags, nfree>>
    /\ UNCHANGED <<entered, frame_leaked, codecVars>>
    /\ UNCHANGED <<iter, command_mutex, challenge_fresh, streamVars>>

\* obs_set_error_flag, lines 600-613: lock, set the flag, invoke the error
\* callback; the mutex is unlocked after the callback
CallSetErrorFlag(flag) ==
    /\ event' = "-"
    /\ dpc = "loop"
    /\ state_mutex = "free"
    /\ status_flags' = status_flags \cup {flag}
    /\ state_mutex' = "daemon"
    /\ dpc' = "callback"
    /\ Invoked("daemon", TRUE)
    /\ UNCHANGED <<state, socket_open, should_exit, config,
                   command_queue_head, command_queue_count, current_scene,
                   stats, retry_count, auth_required, last_pong_received,
                   last_ping_sent, dcmd, last_keepalive, callerVars, envVars,
                   histVars>>
    /\ UNCHANGED <<nthreads, dflags, nfree>>
    /\ UNCHANGED <<entered, frame_leaked, codecVars>>
    /\ UNCHANGED <<iter, command_mutex, challenge_fresh, streamVars>>

\* obs_process_message, lines 859-867: lock, copy the scene name, invoke the
\* scene callback; the mutex is unlocked after the callback
CallSceneUpdate(scene_name) ==
    /\ event' = "-"
    /\ dpc = "loop"
    /\ state_mutex = "free"
    /\ current_scene' = scene_name
    /\ state_mutex' = "daemon"
    /\ dpc' = "callback"
    /\ Invoked("daemon", TRUE)
    /\ UNCHANGED <<state, socket_open, should_exit, config,
                   command_queue_head, command_queue_count, status_flags,
                   stats, retry_count, auth_required, last_pong_received,
                   last_ping_sent, dcmd, last_keepalive, callerVars, envVars,
                   histVars>>
    /\ UNCHANGED <<nthreads, dflags, nfree>>
    /\ UNCHANGED <<entered, frame_leaked, codecVars>>
    /\ UNCHANGED <<iter, command_mutex, challenge_fresh, streamVars>>

\* The running callback calls a getter.  The getter locks the state mutex,
\* which the calling thread holds (RelockOutcomes): it blocks there, or the
\* lock call returns an error the getter does not look at, and the getter
\* reads the field, unlocks the mutex and returns.
CallbackGetter(getter) ==
    /\ event' = getter
    /\ dpc = "callback"
    /\ \E relock \in RelockOutcomes :
          IF relock = "blocks"
          THEN /\ dpc' = "callback_blocked"
               /\ UNCHANGED state_mutex
          ELSE /\ dpc' = "callback_return"
               /\ state_mutex' = "free"
    /\ UNCHANGED <<state, socket_open, should_exit, config,
                   command_queue_head, command_queue_count, status_flags,
                   current_scene, stats, retry_count, auth_required,
                   last_pong_received, last_ping_sent, dcmd, last_keepalive,
                   callerVars, envVars, histVars>>
    /\ UNCHANGED <<nthreads, dflags, nfree, cb_on>>
    /\ UNCHANGED <<entered, frame_leaked, codecVars>>
    /\ UNCHANGED <<iter, command_mutex, challenge_fresh, streamVars>>

\* the callback returns and the function that invoked it unlocks the mutex
\* (lines 597, 612 and 867)
CallbackReturn ==
    /\ event' = "-"
    /\ dpc \in {"callback", "callback_return"}
    /\ state_mutex' = "free"
    /\ dpc' = "loop"
    /\ UNCHANGED <<state, socket_open, should_exit, config,
                   command_queue_head, command_queue_count, status_flags,
                   current_scene, stats, retry_count, auth_required,
                   last_pong_received, last_ping_sent, dcmd, last_keepalive,
                   callerVars, envVars, histVars>>
    /\ UNCHANGED <<nthreads, dflags, nfree, cb_on>>
    /\ UNCHANGED <<entered, frame_leaked, codecVars>>
    /\ UNCHANGED <<iter, command_mutex, challenge_fresh, streamVars>>

NextCallback ==
    \/ \E new_state \in SetStateArgs : CallSetState(new_state)
    \/ \E flag \in SetErrorFlagArgs : CallSetErrorFlag(flag)
    \/ \E scene_name \in Scenes : CallSceneUpdate(scene_name)
    \/ \E getter \in Getters : CallbackGetter(getter)
    \/ CallbackReturn

SpecCallback == InitCallback /\ [][NextCallback]_vars

(* ---------------------------------------------------------------------- *)
(* The byte stream of one connection                                       *)
(* ---------------------------------------------------------------------- *)
\* SpecStream: what the daemon thread receives on one connection.  The
\* server sends its 101 response and then two frames; TCP delivers the bytes
\* in order, cut into segments anywhere.  A recv() returns the bytes that
\* have arrived, at most as many as asked for; net holds the segments not
\* yet received, and every way of cutting the stream is an initial state
\* (segments that arrive together are one segment of a coarser cut).

\* "101\r": the status the handshake looks for and the rest of the response
Response101 == <<49, 48, 49, 13>>

\* two unmasked final text frames, payloads "H" and "ID"
ServerFrames == <<(<<129, 1, 72>>), (<<129, 2, 73, 68>>)>>

ServerBytes == Response101 \o ServerFrames[1] \o ServerFrames[2]

\* what obs_read_frame returns for those frames, read whole
ExpectedFrames ==
    <<[opcode |-> WS_OPCODE_TEXT, data |-> <<72>>],
      [opcode |-> WS_OPCODE_TEXT, data |-> <<73, 68>>]>>

\* the stream cut after the positions in cuts
Segments(bytes, cuts) ==
    LET ends == cuts \cup {Len(bytes)}
        Start(e) == IF \E c \in ends : c < e
                    THEN (CHOOSE c \in ends :
                             c < e /\ \A d \in ends : d < e => d <= c) + 1
                    ELSE 1
        RECURSIVE From(_)
        From(s) == IF s > Len(bytes) THEN <<>>
                   ELSE LET e == CHOOSE c \in ends :
                                    c >= s /\ \A d \in ends : d >= s => c <= d
                        IN  <<SubSeq(bytes, s, e)>> \o From(e + 1)
    IN  From(1)

\* one recv(fd, buf, n, 0) with data waiting: the bytes it stores and the
\* segments left
Recv(segments, n) ==
    LET first == Head(segments)
        k == IF n < Len(first) THEN n ELSE Len(first)
    IN  [got |-> SubSeq(first, 1, k),
         rest |-> IF k = Len(first) THEN Tail(segments)
                  ELSE <<SubSeq(first, k + 1, Len(first))>> \o Tail(segments)]

\* the payload loop of obs_read_frame, lines 773-787: recv() until n bytes
\* are there; with nothing more arriving the loop stays in recv()
RECURSIVE RecvLoop(_, _)
RecvLoop(segments, n) ==
    IF n = 0 \/ segments = <<>> THEN [got |-> <<>>, rest |-> segments]
    ELSE LET r == Recv(segments, n)
             more == RecvLoop(r.rest, n - Len(r.got))
         IN  [got |-> r.got \o more.got, rest |-> more.rest]

\* strstr(response, "101 Switching Protocols"), line 393
Has101(response) ==
    \E i \in 1..(Len(response) - 2) : SubSeq(response, i, i + 2) = <<49, 48, 49>>

\* obs_read_frame on the segments waiting, lines 740-804.  ret is the value
\* returned; blocked says that a recv() found nothing waiting and does not
\* return; rest are the segments left.  The header, the extended length and
\* the mask key are read with one recv() each, which must fill its buffer.
ReadFrameNet(segments) ==
    LET Failed(rest) == [ret |-> -1, blocked |-> FALSE, opcode |-> 0,
                         data |-> <<>>, rest |-> rest]
        Blocked == [ret |-> -1, blocked |-> TRUE, opcode |-> 0,
                    data |-> <<>>, rest |-> <<>>]
        header == Recv(segments, 2)
    IN  IF Len(header.got) # 2 THEN Failed(header.rest)
        ELSE
        LET fin == header.got[1] \div 128
            opcode == header.got[1] % 16
            masked == header.got[2] \div 128
            len7 == header.got[2] % 128
            ext == IF len7 = 126 THEN 2 ELSE IF len7 = 127 THEN 8 ELSE 0
        IN  IF ext > 0 /\ header.rest = <<>> THEN Blocked
            ELSE
            LET len_bytes == IF ext > 0 THEN Recv(header.rest, ext)
                             ELSE [got |-> <<>>, rest |-> header.rest]
            IN  IF Len(len_bytes.got) # ext THEN Failed(len_bytes.rest)
                ELSE IF masked = 1 /\ len_bytes.rest = <<>> THEN Blocked
                ELSE
                LET payload_len == IF ext = 0 THEN len7
                                   ELSE FromBigEndian(len_bytes.got)
                    mask_key == IF masked = 1 THEN Recv(len_bytes.rest, 4)
                                ELSE [got |-> <<0, 0, 0, 0>>,
                                      rest |-> len_bytes.rest]
                IN  IF Len(mask_key.got) # 4 THEN Failed(mask_key.rest)
                    ELSE
                    LET payload == RecvLoop(mask_key.rest, payload_len)
                    IN  IF Len(payload.got) < payload_len THEN Blocked
                        ELSE [ret |-> IF fin = 1 THEN 0 ELSE 1,
                              blocked |-> FALSE,
                              opcode |-> opcode,
                              data |-> IF masked = 1
                                       THEN MaskBytes(payload.got, mask_key.got)
                                       ELSE payload.got,
                              rest |-> payload.rest]

InitStream ==
    /\ EngineFields({DefaultConfig(FALSE, FALSE)}, {}, 0)
    /\ CodecIdle
    /\ net \in {Segments(ServerBytes, cuts) :
                   cuts \in SUBSET (1..(Len(ServerBytes) - 1))}
    /\ rpc = "handshake"
    /\ dispatched = <<>>

\* obs_websocket_handshake, lines 381-402: one recv() into a local buffer
\* of 2048 bytes takes whatever has arrived; the response is accepted when
\* it holds the 101 status, and the buffer is dropped on return
StreamHandshake ==
    /\ rpc = "handshake"
    /\ net # <<>>
    /\ LET response == Recv(net, 2047) IN
         /\ net' = response.rest
         /\ rpc' = IF Has101(response.got) THEN "connected" ELSE "failed"
    /\ UNCHANGED <<threadVars, codecVars, dispatched>>

\* case OBS_STATE_CONNECTED, lines 236-254: poll() reports data waiting,
\* obs_read_frame is called once and the frame is dispatched when it
\* returned 0
StreamReadFrame ==
    /\ rpc = "connected"
    /\ net # <<>>
    /\ LET frame == ReadFrameNet(net) IN
         /\ net' = frame.rest
         /\ rpc' = IF frame.blocked THEN "blocked" ELSE "connected"
         /\ dispatched' =
               IF frame.ret = 0
               THEN Append(dispatched,
                           [opcode |-> frame.opcode, data |-> frame.data])
               ELSE dispatched
    /\ UNCHANGED <<threadVars, codecVars>>

NextStream == StreamHandshake \/ StreamReadFrame

SpecStream == InitStream /\ [][NextStream]_vars

(* ---------------------------------------------------------------------- *)
(* Properties of the command queue (SpecQueue)                             *)
(* ---------------------------------------------------------------------- *)
\* the queue after a command of caller c has been linked at the head of the
\* list of its priority
WithCommand(c) ==
    [p \in Priorities |->
        IF p = clocal[c].priority
        THEN <<[id |-> accepted + 1, scene_name |-> clocal[c].scene,
                priority |-> p]>> \o command_queue_head[p]
        ELSE command_queue_head[p]]

\* C1: in every connection state, a switch_scene call that is past the
\* scene-cache check and finds room in the queue returns 0 and adds exactly
\* one command, the one asked for, to the list of its priority; the
\* connection state plays no part.
C1_EnqueueInAnyState ==
    [][\A c \in Callers :
         (SwitchSceneEnqueue(c)
          /\ command_queue_count < config.command_queue_size)
         => /\ cret'[c] = 0
            /\ cpc'[c] = "idle"
            /\ command_queue_count' = command_queue_count + 1
            /\ command_queue_head' = WithCommand(c)
            /\ state' = state]_vars

\* C1 witness: a command has just been accepted while the engine is in
\* Error with its socket closed
C1_Witness ==
    /\ event = "enqueued"
    /\ state = "Error"
    /\ ~socket_open
    /\ cret["c1"] = 0
    /\ command_queue_count = 1

\* C2: when the count has reached command_queue_size, switch_scene returns
\* -3, leaves the four lists and the count as they are and raises the
\* queue-full flag; and as long as nothing has been drained a call is
\* rejected exactly when command_queue_size commands were accepted before it.
C2_QueueFull ==
    [][\A c \in Callers :
         SwitchSceneEnqueue(c)
         => /\ (command_queue_count = config.command_queue_size)
                => /\ cret'[c] = -3
                   /\ command_queue_head' = command_queue_head
                   /\ command_queue_count' = command_queue_count
                   /\ "QUEUE_FULL" \in status_flags'
            /\ (stats.messages_sent = 0 /\ dcmd = NoCmd)
                => (cret'[c] = -3 <=> accepted = config.command_queue_size)]_vars

\* C2 witness: with nothing drained, the call after command_queue_size
\* accepted ones has returned -3
C2_Witness ==
    /\ cret["c1"] = -3
    /\ cpc["c1"] = "idle"
    /\ "QUEUE_FULL" \in status_flags
    /\ stats.messages_sent = 0
    /\ dcmd = NoCmd
    /\ accepted = config.command_queue_size
    /\ nalloc = config.command_queue_size + 1
    /\ command_queue_count = config.command_queue_size

\* C3: with scene caching on and the cached scene equal to the name asked
\* for, a switch_scene call returns 0 at once and changes neither the queue,
\* nor its count, nor the statistics, nor the cached scene (so the next such
\* call finds the same).
C3_CachedSceneNoop ==
    [][\A c \in Callers, n \in Scenes, p \in Priorities :
         (SwitchSceneCheck(c, n, p)
          /\ config.enable_scene_cache /\ current_scene = n)
         => /\ cret'[c] = 0
            /\ cpc'[c] = "idle"
            /\ command_queue_head' = command_queue_head
            /\ command_queue_count' = command_queue_count
            /\ stats' = stats
            /\ current_scene' = current_scene
            /\ nalloc' = nalloc]_vars

\* C3 witness: a call has just taken the fast path while a command for
\* another request is still queued
C3_Witness ==
    /\ event = "fast_path"
    /\ config.enable_scene_cache
    /\ current_scene = "A"
    /\ cret["c1"] = 0
    /\ command_queue_count > 0

\* C4: a drain step that finds the queue non-empty removes the head of the
\* highest non-empty priority level; and no command leaves the queue while
\* a command of a higher priority is queued, so a Critical command enqueued
\* while a Normal one is pending goes to obs_send_frame first.
C4_HighestPriorityFirst ==
    [][/\ (DaemonDrainPop /\ QueuedTotal > 0)
          => /\ dcmd' # NoCmd
             /\ command_queue_head[dcmd'.priority] # <<>>
             /\ dcmd' = Head(command_queue_head[dcmd'.priority])
             /\ \A p \in Priorities :
                   p > dcmd'.priority => command_queue_head[p] = <<>>
             /\ QueuedIds' = QueuedIds \ {dcmd'.id}
       /\ \A p \in Priorities :
             \A i \in 1..Len(command_queue_head[p]) :
                command_queue_head[p][i].id \notin QueuedIds'
                => \A q \in Priorities :
                      q > p => command_queue_head[q] = <<>>]_vars

\* C4 witness: a Critical command enqueued after a Normal one has been
\* popped for sending while the Normal one is still queued
C4_Witness ==
    /\ dpc = "send"
    /\ dcmd.priority = OBS_PRIORITY_CRITICAL
    /\ \E i \in 1..Len(command_queue_head[OBS_PRIORITY_NORMAL]) :
          command_queue_head[OBS_PRIORITY_NORMAL][i].id < dcmd.id

\* C5 (as claimed): every accepted command is in the queue, in the daemon's
\* hands on its way to obs_send_frame, transmitted, or discarded by cleanup
C5_NoCommandDropped ==
    \A id \in 1..accepted :
       \/ id \in QueuedIds
       \/ id = dcmd.id
       \/ id \in wire
       \/ id \in discarded

(* ---------------------------------------------------------------------- *)
(* Properties of the connection life cycle (Spec)                          *)
(* ---------------------------------------------------------------------- *)
\* C6 (as claimed): a reconnect call returns; made in Connected it leaves
\* the state Reconnecting and the retry counter 0, made in any other state
\* it leaves both as they were
C6_ReconnectReturns ==
    [][\A c \in Callers :
         Reconnect(c)
         => /\ cpc'[c] = "idle"
            /\ IF state = "Connected"
               THEN state' = "Reconnecting" /\ retry_count' = 0
               ELSE state' = state /\ retry_count' = retry_count]_vars

\* C7 (as claimed): a reconnect call made in Error with the retries used up
\* takes the engine out of Error or gives it retries again
C7_ReconnectLeavesError ==
    [][\A c \in Callers :
         (Reconnect(c) /\ state = "Error"
          /\ retry_count >= config.max_retries)
         => (state' # "Error" \/ retry_count' < config.max_retries)]_vars

C9_ReadyWithoutAuth ==
    ~everHelloAuth
    => /\ state # "Authenticating"
       /\ (state = "Connected" /\ identified
           /\ status_flags \cap ErrorFlags3 = {})
           => IsReadyValue(state, status_flags) = 1

(* ---------------------------------------------------------------------- *)
(* Properties of the keepalive timer (SpecKeepalive)                       *)
(* ---------------------------------------------------------------------- *)
\* C10: with keepalive on, a keepalive check made in Connected when the ping
\* interval has elapsed and no pong arrived within ping_timeout_ms raises the
\* timeout-error flag and sets Error; the next loop iteration runs the Error
\* case, which adds exactly 1 to the retry counter and, the retries not being
\* used up, sets Reconnecting.
C10_PingTimeout ==
    [][/\ (/\ DaemonKeepalive
           /\ config.enable_keepalive
           /\ state = "Connected"
           /\ now - last_keepalive >= config.ping_interval_ms \div 1000
           /\ now - last_pong_received > config.ping_timeout_ms \div 1000)
          => /\ "TIMEOUT_ERROR" \in status_flags'
             /\ state' = "Error"
             /\ dpc' = "loop"
       /\ (DaemonDispatch /\ state = "Error" /\ ~should_exit)
          => dpc' = "error"
       /\ DaemonError
          => /\ retry_count' = retry_count + 1
             /\ (retry_count + 1 < config.max_retries)
                 => state' = "Reconnecting"]_vars

\* C10 witness: the server has never sent a pong, the only error raised is
\* the ping timeout, and the Error case has taken the engine to Reconnecting
\* with the retry counter at 1
C10_Witness ==
    /\ config.enable_keepalive
    /\ last_pong_received = 0
    /\ "TIMEOUT_ERROR" \in status_flags
    /\ status_flags \cap ErrorFlags3 = {}
    /\ state = "Reconnecting"
    /\ retry_count = 1
    /\ dpc = "loop"

(* ---------------------------------------------------------------------- *)
(* Properties of shutdown and construction                                 *)
(* ---------------------------------------------------------------------- *)
\* C11 (as claimed): whatever the daemon was doing when shutdown was
\* requested, it leaves its loop and cleanup returns; so cleanup, waiting in
\* pthread_join, never faces a daemon that is in a call that does not return
C11_CleanupReturns ==
    \A c \in Callers : cpc[c] = "cleanup_join" => dpc # "handshake_recv"

\* C12 (as claimed): cleanup called on an engine whose daemon was never
\* started does not crash and returns
C12_CleanupWithoutDaemon ==
    \A c \in Callers : nthreads = 0 => cpc[c] # "crashed"

\* C15: start_daemon starts a thread only when the state is Disconnected;
\* in any other state it returns an error, starts no thread and leaves the
\* state and the status flags as they are.
C15_StartOnlyFromDisconnected ==
    [][\A c \in Callers :
         StartDaemon(c)
         => /\ nthreads' # nthreads => state = "Disconnected"
            /\ state # "Disconnected"
                => /\ cret'[c] < 0
                   /\ nthreads' = nthreads
                   /\ state' = state
                   /\ status_flags' = status_flags]_vars

\* C15 witness: start_daemon has returned -2 on an engine whose daemon is
\* past Disconnected
C15_Witness ==
    /\ cret["c1"] = -2
    /\ cpc["c1"] = "idle"
    /\ nthreads = 1
    /\ state = "Connecting"
    /\ "DAEMON_READY" \in status_flags

\* C16 (as claimed): at most one daemon thread is ever started
C16_OneDaemonThread == nthreads <= 1

\* C17: init returns an error and produces no engine for an empty host, a
\* port outside 1..65535 or a queue capacity of 0; for every other
\* configuration it returns 0 with the state Disconnected, the queue empty,
\* no status flag, the retry counter 0 and no socket.
C17_InitValidates ==
    [][\A c \in Callers :
         InitCall(c)
         => IF \/ config.host = ""
               \/ config.port < 1
               \/ config.port > 65535
               \/ config.command_queue_size = 0
            THEN /\ cret'[c] < 0
                 /\ state' = "Uninitialized"
            ELSE /\ cret'[c] = 0
                 /\ state' = "Disconnected"
                 /\ command_queue_count' = 0
                 /\ QueuedIds' = {}
                 /\ status_flags' = {}
                 /\ retry_count' = 0
                 /\ ~socket_open']_vars

\* C17 witness: init has produced an engine for the largest valid port, and
\* nothing else has been called
C17_Witness ==
    /\ config.port = 65535
    /\ cret["c1"] = 0
    /\ state = "Disconnected"
    /\ nthreads = 0
    /\ status_flags = {}

\* C13 (as claimed): every accepted command is freed exactly once, by the
\* drain step or by cleanup: no command is freed twice, a command still
\* linked in the queue or in the daemon's hands has not been freed, and once
\* cleanup has returned every accepted command has been freed
C13_FreedExactlyOnce ==
    /\ \A id \in DOMAIN nfree :
          nfree[id] <= (IF id <= accepted THEN 1 ELSE 0)
    /\ \A id \in 1..accepted :
          \/ id = dcmd.id
          \/ id \in QueuedIds /\ \A c \in Callers : cpc[c] # "freed"
          => nfree[id] = 0
    /\ (\E c \in Callers : cpc[c] = "freed")
          => \A id \in 1..accepted : nfree[id] = 1

\* C14 (as claimed): once the connection state is ShuttingDown it stays
\* ShuttingDown
C14_ShuttingDownTerminal ==
    [][state = "ShuttingDown" => state' = "ShuttingDown"]_vars

\* C18 (as claimed): every invocation of a registered state, error or scene
\* callback happens on the daemon thread, never on a caller thread
C18_CallbacksOnDaemon == cb_on \subseteq {"daemon"}

\* the flag the code path of the daemon's current step clears with
\* obs_clear_error_flag (lines 226, 353, 401); no other step clears a flag
ClearedBy ==
    CASE dpc = "connect_flag" -> {"NETWORK_ERROR"}
      [] dpc = "handshake_flag" -> {"PROTOCOL_ERROR"}
      [] dpc = "auth_flag" -> {"AUTH_ERROR"}
      [] OTHER -> {}

\* C19 (as claimed): a flag that is set stays set over every step, except
\* the flag the step's code path explicitly clears
C19_FlagsSticky ==
    [][status_flags \ status_flags' \subseteq ClearedBy]_vars

\* C20 (as claimed): the connection state, the status flags, the cached
\* scene and the statistics are accessed only by a thread holding the state
\* mutex: while another thread holds the mutex over a step they do not change
C20_AccessUnderStateMutex ==
    [][(state_mutex # "free" /\ state_mutex' = state_mutex)
          => UNCHANGED <<state, status_flags, current_scene, stats>>]_vars

\* C21: a frame written by obs_send_frame and read back by obs_read_frame
\* comes back as a final frame with the opcode, the length and the payload
\* that were sent, a null payload when the length is 0; the length travels in
\* the second header byte up to 125, as 126 and two big-endian bytes up to
\* 65535, as 127 and eight big-endian bytes above.
C21_FrameRoundTrip ==
    frame_out # <<>>
    => LET p == Len(frame_in.data)
       IN  /\ frame_out.ret = 0
           /\ frame_out.opcode = frame_in.opcode
           /\ frame_out.len = p
           /\ frame_out.null = (p = 0)
           /\ frame_out.data = frame_in.data
           /\ frame_wire[2] >= 128
           /\ p <= 125 => frame_wire[2] - 128 = p /\ Len(frame_wire) = 6 + p
           /\ (126 <= p /\ p <= 65535)
                 => /\ frame_wire[2] - 128 = 126
                    /\ 256 * frame_wire[3] + frame_wire[4] = p
                    /\ Len(frame_wire) = 8 + p
           /\ p >= 65536
                 => /\ frame_wire[2] - 128 = 127
                    /\ FromBigEndian(SubSeq(frame_wire, 3, 10)) = p
                    /\ \A i \in 3..7 : frame_wire[i] = 0
                    /\ Len(frame_wire) = 14 + p

\* C21 witness: a payload of 65536 bytes has come back under a mask key
\* that changes its bytes on the wire
C21_Witness ==
    /\ frame_out # <<>>
    /\ frame_out.len = 65536
    /\ frame_in.mask_key # <<0, 0, 0, 0>>
    /\ frame_wire[15] # frame_in.data[1]

\* C22: the authentication string of the Identify message is
\* base64(SHA256(base64(SHA256(password || salt)) || challenge)), a function
\* of password, salt and challenge alone, and the message carries op 1,
\* rpcVersion 1 and eventSubscriptions 33.
C22_AuthString ==
    auth_out # <<>>
    => /\ auth_out.d.authentication =
             obs_base64_encode(
                SHA256(obs_base64_encode(
                          SHA256(auth_in.password \o auth_in.salt))
                       \o auth_in.challenge))
       /\ auth_out.op = 1
       /\ auth_out.d.rpcVersion = 1
       /\ auth_out.d.eventSubscriptions = 33

\* C22 witness: an Identify computed from password "abc", salt "s1" and
\* challenge "c1"
C22_Witness ==
    /\ auth_out # <<>>
    /\ auth_in.password = Text(<<"a", "b", "c">>)
    /\ auth_in.salt = Text(<<"s", "1">>)
    /\ auth_in.challenge = Text(<<"c", "1">>)

\* C23 (as claimed): the state line 213 enters after the handshake is
\* Authenticating when the Hello of that connection demands authentication
\* and Connected when it does not
C23_HelloDecidesAuth ==
    [][\A ev \in PollEvents :
          PollStep(ev)
          => /\ ev.kind = "hello_auth" => entered = "Authenticating"
             /\ ev.kind = "hello_noauth" => entered = "Connected"]_vars

\* C24 (as claimed): in Connected, the step in which obs_read_frame fails and
\* the step in which the send of a command fails set the state to Error
C24_IoFailureToError ==
    [][/\ (PollStep([kind |-> "read_failed", scene |-> ""])
             /\ state = "Connected")
          => state' = "Error"
       /\ (DaemonDrainSend /\ socket_open /\ dcmd.id \notin wire'
             /\ state = "Connected")
          => state' = "Error"]_vars

\* C25: an iteration of the Error case closes the socket, adds one to the
\* retry counter and sets the state to Reconnecting exactly when the new
\* count is below max_retries; otherwise it leaves the state as it is.
C25_ErrorIteration ==
    [][DaemonError
       => /\ ~socket_open'
          /\ retry_count' = retry_count + 1
          /\ state' = IF retry_count + 1 < config.max_retries
                      THEN "Reconnecting" ELSE state]_vars

\* C25 witness: the Error case has just used up the last retry and the
\* engine is left in Error with its socket closed
C25_Witness ==
    /\ dpc = "loop"
    /\ state = "Error"
    /\ retry_count = config.max_retries
    /\ ~socket_open
    /\ ~should_exit

\* C26: in Authenticating, a run of obs_authenticate that succeeds sets the
\* state to Connected, the Authenticated flag is then set and the auth-error
\* flag cleared; a run that fails leaves the state as it is, and the next
\* iteration in Authenticating runs obs_authenticate again.
C26_Authenticating ==
    [][/\ (DaemonAuth /\ dpc' = "auth_flag") => state' = "Connected"
       /\ (DaemonAuth /\ dpc' = "loop")
             => /\ state' = state
                /\ "AUTHENTICATED" \in status_flags'
                      => "AUTHENTICATED" \in status_flags
       /\ (DaemonStoreFlags /\ dpc = "auth_flag")
             => /\ "AUTHENTICATED" \in status_flags'
                /\ "AUTH_ERROR" \notin status_flags'
                /\ state' = state
       /\ (DaemonDispatch /\ ~should_exit /\ state = "Authenticating")
             => dpc' = "auth"]_vars

\* C26 witness: authentication has succeeded on a connection that went
\* through Authenticating and the flag is stored
C26_Witness ==
    /\ entered = "Authenticating"
    /\ state = "Connected"
    /\ "AUTHENTICATED" \in status_flags
    /\ dpc = "loop"
    /\ socket_open

\* C27 (as claimed): after a Hello without an authentication object is
\* processed authentication is marked not required; after a Hello with
\* challenge and salt it is marked required
C27_HelloSetsAuthRequired ==
    [][\A ev \in PollEvents :
          PollStep(ev)
          => /\ ev.kind = "hello_noauth" => ~auth_required'
             /\ ev.kind = "hello_auth" => auth_required']_vars

\* C28: processing Identified sets the retry counter to 0 and clears the
\* auth-error flag; the state, the other flags, the cached scene and the
\* command queue stay as they are.
C28_Identified ==
    [][PollStep([kind |-> "identified", scene |-> ""])
       => /\ retry_count' = 0
          /\ status_flags' = status_flags \ {"AUTH_ERROR"}
          /\ UNCHANGED <<state, current_scene, command_queue_head,
                         command_queue_count>>]_vars

\* C28 witness: Identified has been processed on a connection made after
\* an error and the retry counter is back at 0
C28_Witness ==
    /\ identified
    /\ retry_count = 0
    /\ entered = "Authenticating"
    /\ dpc = "drain"
    /\ state = "Connected"

\* C29: the cached scene changes only in the step that processes a
\* CurrentProgramSceneChanged event, where it becomes the event's scene name
\* and the scene callback runs on the daemon thread; no other message and no
\* step of switch_scene or of the drain changes it.
C29_SceneOnlyFromEvent ==
    [][/\ current_scene' # current_scene
          => \E s \in Scenes :
                PollStep([kind |-> "scene_changed", scene |-> s])
       /\ \A s \in Scenes :
             PollStep([kind |-> "scene_changed", scene |-> s])
             => current_scene' = s /\ "daemon" \in cb_on']_vars

\* C29 witness: a scene event has been processed while a command is queued
C29_Witness ==
    /\ current_scene = "B"
    /\ command_queue_count = 1
    /\ dpc = "drain"
    /\ state = "Connected"

\* C30 (as claimed): a frame with FIN=0 is processed as a final frame is,
\* here one that announces a scene, and its payload is freed afterwards
C30_NonFinalSurfaced ==
    [][\A s \in Scenes :
          PollStep([kind |-> "nonfinal", scene |-> s])
          => current_scene' = s /\ ~frame_leaked']_vars

\* C31 (as the source has it): one iteration of the Connected case calls
\* obs_read_frame at most once and unlinks at most one command, and it ends
\* after the keepalive check, or at line 258 when poll() has failed.
ConnectedPcs == {"poll", "pong_flag", "drain", "send", "keepalive"}

C31_OnePerIteration ==
    /\ [](iter.frames <= 1 /\ iter.cmds <= 1)
    /\ [][(dpc \in ConnectedPcs /\ dpc' = "loop")
            => \/ dpc = "keepalive"
               \/ PollStep([kind |-> "poll_error", scene |-> ""])]_vars

\* an iteration that read a frame and unlinked a command while another
\* command stayed queued has come to the keepalive check
C31_Witness ==
    /\ dpc = "keepalive"
    /\ iter.frames = 1
    /\ iter.cmds = 1
    /\ command_queue_count > 0

\* C31 (as stated): every iteration of the Connected case reads at most one
\* frame, unlinks at most one command and reaches the keepalive check.
C31_EveryIterationKeepalive ==
    /\ [](iter.frames <= 1 /\ iter.cmds <= 1)
    /\ [][(dpc \in ConnectedPcs /\ dpc' = "loop") => dpc = "keepalive"]_vars

\* C32: the command the drain step unlinks is the most recently enqueued
\* one of its priority level: every command left in that level was
\* accepted before it.
C32_LifoWithinLevel ==
    [][(DaemonDrainPop /\ dcmd' # NoCmd)
        => \A i \in 1..Len(command_queue_head'[dcmd'.priority]) :
              command_queue_head'[dcmd'.priority][i].id < dcmd'.id]_vars

\* the drain step has unlinked a command and an older command of the same
\* level is still queued
C32_Witness ==
    /\ dpc = "send"
    /\ dcmd # NoCmd
    /\ \E i \in 1..Len(command_queue_head[dcmd.priority]) :
          command_queue_head[dcmd.priority][i].id < dcmd.id

\* the positions at which the daemon thread's next statement is a socket
\* call: connect(), the handshake's send() and recv(), the sends of
\* Identify, of a command and of a ping, and poll() with the recv() calls
\* of obs_read_frame
NetworkPcs ==
    {"connect_io", "handshake", "handshake_recv", "auth", "poll", "send",
     "keepalive"}

\* C33: the daemon thread, the only thread that touches the socket, holds
\* neither the state mutex nor the command mutex when it makes a socket
\* call; in particular the drain step has unlocked the command mutex before
\* it sends.
C33_NoMutexAcrossIo ==
    dpc \in NetworkPcs
        => (state_mutex # "daemon" /\ command_mutex # "daemon")

\* the drain step is about to send the command it unlinked
C33_Witness ==
    /\ dpc = "send"
    /\ dcmd # NoCmd
    /\ socket_open
    /\ command_mutex = "free"

\* C34: with keepalive enabled, a server that answers every ping in time
\* never causes the timeout error.  A case of it: the keepalive check does
\* not find a timeout while the engine has not sent any ping yet, there
\* being no ping the server could have left unanswered.
C34_AnsweredNeverTimesOut ==
    [][(DaemonKeepalive /\ PingDue /\ PongOverdue) => last_ping_sent > 0]_vars

\* C35: the retry counter never exceeds max_retries.
C35_RetryBounded == retry_count <= config.max_retries

\* C36: the pending-command count equals the number of commands in the four
\* priority lists and never exceeds command_queue_size, whatever the
\* interleaving of the callers of switch_scene and the drain step.
C36_CountMatchesLists ==
    /\ command_queue_count = QueuedTotal
    /\ command_queue_count <= config.command_queue_size

\* the queue is full, a caller is in switch_scene about to test the count
\* and the drain step is about to unlink a command
C36_Witness ==
    /\ command_queue_count = config.command_queue_size
    /\ QueuedTotal = config.command_queue_size
    /\ \E c \in Callers : cpc[c] = "enqueue"
    /\ dpc = "drain"

\* C37: when obs_authenticate sends Identify, the challenge and the salt it
\* computes the authentication string from came with the Hello received on
\* the connection the Identify goes out on.
C37_ChallengeOfThisConnection ==
    [][(DaemonAuth /\ auth_required /\ dpc' = "auth_flag")
        => challenge_fresh]_vars

\* C38: is_ready returns true only if the server has sent Identified on the
\* current connection, and the Authenticated flag is not set while the
\* current connection has not been acknowledged.
C38_ReadyMeansIdentified ==
    /\ [][\A c \in Callers :
            (IsReadyState(c) /\ cret'[c] = 1) => identified]_vars
    /\ []((socket_open /\ "AUTHENTICATED" \in status_flags) => identified)

\* C39: a registered callback that calls a read-only function of the facade
\* returns: the daemon thread is never stopped for ever inside a getter
\* called from a callback.
C39_GetterInCallbackReturns == dpc # "callback_blocked"

\* C40: once the handshake has accepted the 101 response, every frame the
\* server sent after it is decoded and dispatched, however the stream was
\* cut: no read waits for bytes the server never sent, and when all bytes
\* are received the frames dispatched are the frames sent.
C40_EveryFrameDispatched ==
    /\ rpc # "blocked"
    /\ (rpc = "connected" /\ net = <<>>) => dispatched = ExpectedFrames

====
